------------------------------ MODULE SopBroker ------------------------------
(***************************************************************************)
(* Who may pass a gate of one run, and how many it takes: membership and   *)
(* quorum (sop/approval/broker.rs) over votes in the ledger, the gate's    *)
(* revision that tells one presentation from the next (sop/engine.rs), and *)
(* answers that come from prompts in chat channels (the orchestrator of    *)
(* zeroclaw-channels).                                                     *)
(*                                                                         *)
(* The run meets the same gate again and again, the worst case for votes   *)
(* and prompts left over from an earlier visit.  Every call holds the      *)
(* engine's mutex; an answer from a channel takes it twice.  Slots and the *)
(* store are in SopEngine: here a decision that is due may also be put off *)
(* for want of a slot or because a write fails.                            *)
(***************************************************************************)
EXTENDS Naturals, FiniteSets

CONSTANTS
    Principals,  \* who may send a decision, by transport and identity
    Voter,       \* voter_key: one credential over two transports is one voter
    Agents,      \* principals of the agent's own tool
    Chatters,    \* principals known by a channel and a sender
    Mode,        \* approval_mode
    Configs,     \* what [sop.approval] may say of the step over time
    Choices,     \* what the gate's prompt offers
    NoPolicy,    \* the step names no policy
    NoAnswer,    \* no channel answer is being handled
    Timeouts,    \* what approval_timeout_action may do
    Faults,      \* what may fail
    MaxVisits,   \* bound: presentations of the gate
    MaxReloads   \* bound: edits of the configuration

ASSUME BrokerConstants ==
    /\ Agents \subseteq Principals /\ Chatters \subseteq Principals
    /\ Mode \in {"Both", "OutOfBandRequired", "AgentTool"}
    /\ \A c \in Configs : /\ DOMAIN c = {"policy", "known", "open", "members", "quorum", "routes"}
                          /\ c.known \in BOOLEAN /\ c.open \in BOOLEAN
                          /\ c.members \subseteq Principals /\ c.quorum \in Nat
                          /\ c.routes \subseteq {"request", "escalation"}
                          /\ c.routes # {} => c.known /\ c.policy # NoPolicy
    /\ Choices \subseteq {"approve", "amend", "revise", "deny"}
    /\ Timeouts \subseteq {"Escalate", "Cancel", "AutoApprove"}
    /\ Faults \subseteq {"save", "history"}
    /\ MaxVisits \in Nat /\ MaxReloads \in Nat

VARIABLES
    kind,       \* an approval gate or a deterministic checkpoint
    conf,       \* the live policy of the step
    gate,       \* the run in memory
    row,        \* the run in the store
    votes,      \* gate_vote rows of the ledger
    history,    \* the ledger has some gate event of this run
    reloads,    \* edits so far
    answer,     \* a channel answer between its two looks at the engine
    visit,      \* ghost: which presentation of the gate this is
    shown,      \* ghost: the presentations in the store, and their references
    prompts,    \* ghost: those that went out to a channel
    ayes,       \* ghost: who has voted what under which policy on this presentation
    passed      \* ghost: the decision that passed the gate, until it is met again

vars == <<kind, conf, reloads, gate, row, votes, history, answer,
          visit, shown, prompts, ayes, passed>>
ghosts == <<visit, shown, prompts, ayes, passed>>

(* decided: a checkpoint of the run has recorded a result.                 *)
Running(rev, decided) == [at |-> "running", rev |-> rev, decided |-> decided, saved |-> TRUE]
Nobody == [visit |-> 0]

Init ==
    /\ kind \in {"approval", "checkpoint"}
    /\ conf \in Configs /\ reloads = 0
    /\ gate = Running(0, FALSE) /\ row = gate
    /\ votes = {} /\ history = FALSE
    /\ answer = NoAnswer
    /\ visit = 0 /\ shown = {} /\ prompts = {} /\ ayes = {} /\ passed = Nobody

Fails(what) == what \in Faults

(* A prompt goes out if the policy in force has a route for it; an         *)
(* escalation without one of its own takes that of the request.            *)
Prompt(v, rev, routes) ==
    prompts' = IF conf.routes \cap routes = {} THEN prompts
               ELSE prompts \cup {[visit |-> v, rev |-> rev]}

Announce(v, rev) ==
    shown' = shown \cup {[visit |-> v, rev |-> rev]} /\ Prompt(v, rev, {"request"})

-----------------------------------------------------------------------------
(* The run reaches the gate.  Its revision grows if the gate, or another   *)
(* of the run, has been presented before: that keeps what was said of the  *)
(* earlier presentation apart.  An approval gate learns it from the        *)
(* ledger, and a ledger that cannot be read counts as empty.               *)
PresentedBefore(readable) ==
    IF kind = "approval" THEN history /\ readable ELSE gate.decided

(* Mutant: the first repetition keeps the revision.                        *)
NextRevisionOnceSet(readable) == IF gate.rev > 0 THEN gate.rev + 1 ELSE gate.rev

NextRevision(readable) ==
    IF gate.rev > 0 \/ PresentedBefore(readable) THEN gate.rev + 1 ELSE gate.rev

(* The prompt goes out once the parked run is in the store.                *)
Park ==
    /\ gate.at = "running" /\ visit < MaxVisits
    /\ visit' = visit + 1
    /\ \E saved \in {TRUE} \cup {FALSE : f \in {"save"} \cap Faults},
          readable \in {TRUE} \cup {FALSE : f \in {"history"} \cap Faults} :
         /\ gate' = [gate EXCEPT !.at = "parked", !.saved = saved,
                                 !.rev = NextRevision(readable)]
         /\ IF saved THEN row' = gate' /\ Announce(visit', gate'.rev)
                     ELSE UNCHANGED <<row, shown, prompts>>
    /\ ayes' = {} /\ passed' = Nobody
    /\ UNCHANGED <<kind, conf, reloads, votes, history, answer>>

(* The maintenance tick tries an unsaved park again.                       *)
RetryPark ==
    /\ gate.at = "parked" /\ ~gate.saved
    /\ gate' = [gate EXCEPT !.saved = TRUE]
    /\ row' = gate' /\ Announce(visit, gate.rev)
    /\ UNCHANGED <<kind, conf, reloads, votes, history, answer, visit, ayes, passed>>

-----------------------------------------------------------------------------
(* Who may act.  A named policy that the configuration lacks lets nobody   *)
(* act; a policy without a group lets everybody act whom the approval mode *)
(* does not reject.                                                        *)

PolicyHolds == conf.policy = NoPolicy \/ conf.known
Unpoliced == conf.policy = NoPolicy

IsMember(p) == Unpoliced \/ conf.open \/ p \in conf.members

Rejected(p) == \/ Mode = "OutOfBandRequired" /\ p \in Agents
               \/ Mode = "AgentTool" /\ p \notin Agents

MayAct(p) == PolicyHolds /\ IsMember(p) /\ ~Rejected(p)

Need == IF Unpoliced \/ conf.quorum = 0 THEN 1 ELSE conf.quorum

-----------------------------------------------------------------------------
(* Mutants: a vote of an earlier revision stands for one on this revision; *)
(* votes count whatever revision they were cast on.                        *)
SameVoteEver(v, w) == v.voter = w.voter /\ v.policy = w.policy /\ v.what = w.what
QualifiedVotersEver(ledger, what) ==
    {v.voter : v \in {w \in ledger : /\ w.policy = conf.policy /\ w.what = what
                                     /\ conf.open \/ (w.by \in conf.members \ Chatters)}}

(* Votes.  One is recorded once for a voter, policy, revision and decision.*)

SameVote(v, w) == v.voter = w.voter /\ v.policy = w.policy /\ v.rev = w.rev /\ v.what = w.what

RecordVote(p, what) ==
    LET vote == [by |-> p, voter |-> Voter[p], policy |-> conf.policy,
                 rev |-> gate.rev, what |-> what]
    IN IF \E v \in votes : SameVote(v, vote) THEN votes ELSE votes \cup {vote}

(* vote_principal knows no channel: under a group such a vote is void.     *)
StillMember(v) == conf.open \/ (v.by \in conf.members /\ v.by \notin Chatters)

QualifiedVoters(ledger, what) ==
    {v.voter : v \in {w \in ledger : /\ w.policy = conf.policy
                                     /\ w.rev = gate.rev /\ w.what = what
                                     /\ StillMember(w)}}

(* What passing means: the run goes on, or it was at its last step; a      *)
(* revision of the draft parks it again at the same gate.                  *)
Pass(p, what) ==
    /\ passed' = [visit |-> visit, by |-> p, what |-> what]
    /\ ayes' = {}
    /\ history' = TRUE
    /\ IF what = "revise"
       THEN /\ visit < MaxVisits
            /\ visit' = visit + 1
            /\ gate' = [gate EXCEPT !.rev = @ + 1]
            /\ Announce(visit', gate'.rev)
       ELSE /\ gate' \in {[Running(gate.rev, TRUE) EXCEPT !.at = at] : at \in {"running", "over"}}
            /\ UNCHANGED <<visit, shown, prompts>>
    /\ row' = gate'

(* A decision that passes the gate if enough have taken it.  Amending and  *)
(* revising are for checkpoints only.  A park that is not in the store yet *)
(* cannot be voted on.                                                     *)
Favour(p, what) ==
    /\ gate.at = "parked" /\ gate.saved
    /\ what # "approve" => kind = "checkpoint"
    /\ MayAct(p)
    /\ votes' = IF Need > 1 THEN RecordVote(p, what) ELSE votes
    /\ \/ /\ Need > 1 => Cardinality(QualifiedVoters(votes', what)) >= Need
          /\ Pass(p, what)
       \/ /\ history' = (history \/ Need > 1)
          /\ ayes' = IF Need > 1 THEN ayes \cup {[by |-> p, policy |-> conf.policy, what |-> what]}
                                 ELSE ayes
          /\ UNCHANGED <<gate, row, visit, shown, prompts, passed>>
    /\ UNCHANGED <<kind, conf, reloads>>

(* One denial is enough.  It cancels the run at an approval gate, even one *)
(* whose park is not in the store; at a checkpoint the run may go on along *)
(* its failure route.                                                      *)
Deny(p) ==
    /\ gate.at = "parked"
    /\ kind = "checkpoint" => gate.saved
    /\ MayAct(p)
    /\ \E at \in {"over"} \cup (IF kind = "checkpoint" THEN {"running"} ELSE {}) :
         gate' = [Running(gate.rev, TRUE) EXCEPT !.at = at]
    /\ row' = gate'
    /\ history' = TRUE
    /\ passed' = [visit |-> visit, by |-> p, what |-> "deny"]
    /\ ayes' = {}
    /\ UNCHANGED <<kind, conf, reloads, votes, visit, shown, prompts>>

Decide(p, what) == IF what = "deny" THEN Deny(p) ELSE Favour(p, what)

(* The gateway, the websocket, the command line and the agent's tool.      *)
Resolve(p) ==
    /\ p \notin Chatters
    /\ \E what \in {"approve", "deny"} \cap Choices : Decide(p, what)
    /\ UNCHANGED answer

-----------------------------------------------------------------------------
(* A click or a reply in a channel carries the reference of the prompt it  *)
(* answers.  One that names an older revision is turned away, unless the   *)
(* newer park is not in the store yet; then the engine's lock is given up, *)
(* and the decision is taken under the lock again.                         *)
CheckReference(p, what, prompt) ==
    /\ answer = NoAnswer /\ p \in Chatters /\ prompt \in prompts
    /\ gate.at = "parked"
    /\ gate.rev = prompt.rev \/ ~gate.saved
    /\ answer' = [by |-> p, what |-> what, visit |-> prompt.visit]
    /\ UNCHANGED <<kind, conf, reloads, gate, row, votes, history, ghosts>>

ResolveAnswer ==
    /\ answer # NoAnswer
    /\ answer' = NoAnswer
    /\ Decide(answer.by, answer.what)

(* Nothing is parked any more, or the answer is refused.                   *)
AnswerRefused ==
    /\ answer # NoAnswer
    /\ answer' = NoAnswer
    /\ UNCHANGED <<kind, conf, reloads, gate, row, votes, history, ghosts>>

-----------------------------------------------------------------------------
(* apply_timeout_action: only approval gates time out, and only when their *)
(* park is in the store.                                                   *)
TimeOut(act) ==
    /\ kind = "approval" /\ gate.at = "parked" /\ gate.saved
    /\ act = "AutoApprove" => Mode # "AgentTool"
    /\ history' = TRUE
    /\ gate' = CASE act = "Escalate" -> gate
                 [] act = "Cancel" -> [gate EXCEPT !.at = "over"]
                 [] act = "AutoApprove" -> [gate EXCEPT !.at = "running"]
    /\ row' = gate'
    /\ IF act = "Escalate" THEN Prompt(visit, gate.rev, {"request", "escalation"})
                           ELSE UNCHANGED prompts
    /\ UNCHANGED <<kind, conf, reloads, votes, answer, visit, shown, ayes, passed>>

(* The configuration, or the SOP, is edited.                               *)
Reload(c) ==
    /\ c # conf /\ reloads < MaxReloads
    /\ reloads' = reloads + 1
    /\ conf' = c
    /\ UNCHANGED <<kind, gate, row, votes, history, answer, ghosts>>

(* A crash loses what is not in the store; restore_runs announces a parked *)
(* gate again, under the same reference.                                   *)
Restart ==
    /\ gate' = row
    /\ answer' = NoAnswer
    /\ IF row.at = "parked" THEN Announce(visit, row.rev) ELSE UNCHANGED <<shown, prompts>>
    /\ UNCHANGED <<kind, conf, reloads, row, votes, history, visit, ayes, passed>>

Next ==
    \/ Park \/ RetryPark \/ Restart
    \/ \E p \in Principals : Resolve(p)
    \/ \E p \in Principals, what \in Choices, q \in prompts : CheckReference(p, what, q)
    \/ ResolveAnswer \/ AnswerRefused
    \/ \E act \in Timeouts : TimeOut(act)
    \/ \E c \in Configs : Reload(c)

Spec == Init /\ [][Next]_vars

-----------------------------------------------------------------------------
Presentations == 0..MaxVisits

TypeOK ==
    /\ kind \in {"approval", "checkpoint"} /\ conf \in Configs /\ reloads \in 0..MaxReloads
    /\ {gate, row} \subseteq [at : {"running", "parked", "over"}, rev : Presentations,
                              decided : BOOLEAN, saved : BOOLEAN]
    /\ row.saved
    /\ votes \subseteq [by : Principals, voter : {Voter[p] : p \in Principals},
                        policy : {c.policy : c \in Configs}, rev : Presentations,
                        what : Choices \ {"deny"}]
    /\ history \in BOOLEAN
    /\ answer = NoAnswer \/ answer \in [by : Chatters, what : Choices, visit : Presentations]
    /\ visit \in Presentations
    /\ prompts \subseteq shown /\ shown \subseteq [visit : Presentations, rev : Presentations]

(* A gate that people passed had its quorum: enough distinct voters, each  *)
(* a member of the group in force when it passed and let in by the mode,    *)
(* took this very decision under this policy and on this presentation of   *)
(* the gate.  Reloads, restarts, earlier visits, and one credential on two *)
(* transports add none.                                                    *)
Backers(p, what) ==
    {p} \cup {a.by : a \in {b \in ayes : b.what = what /\ b.policy = conf.policy}}

PassedByQuorum ==
    [][passed' \notin {passed, Nobody} /\ passed'.what # "deny" =>
         Cardinality({Voter[q] : q \in {x \in Backers(passed'.by, passed'.what) : MayAct(x)}})
             >= Need]_vars

(* Two presentations never share a reference: a button left over from one  *)
(* of them cannot name the other.                                          *)
PromptsAreDistinct ==
    \A a, b \in shown : a.rev = b.rev => a.visit = b.visit

(* Who has voted on the gate as it stands, and may still act on it, is     *)
(* counted, unless the vote came from a channel under a required group.    *)
VotersAreCounted ==
    gate.at = "parked" /\ Need > 1 /\ PolicyHolds =>
        \A a \in ayes :
            /\ a.policy = conf.policy /\ IsMember(a.by)
            /\ conf.open \/ a.by \notin Chatters
            => Voter[a.by] \in QualifiedVoters(votes, a.what)

(* Does not hold: members named by their channel are approvers like the    *)
(* others.  The count resolves principals anew and knows no channels.      *)
ChannelMembersAreCounted ==
    gate.at = "parked" /\ Need > 1 /\ PolicyHolds =>
        \A a \in ayes :
            a.policy = conf.policy /\ IsMember(a.by)
            => Voter[a.by] \in QualifiedVoters(votes, a.what)

(* An answer to one prompt never decides on another presentation of the    *)
(* gate, as types.rs says of SopRun::revision.  It does: the reference is  *)
(* checked under one lock and the answer resolved under the next.          *)
AnswersDecideTheirOwnPrompt ==
    [][answer # NoAnswer /\ answer' = NoAnswer /\ passed' \notin {passed, Nobody}
         => passed'.visit = answer.visit]_vars
=============================================================================
