---------------------------- MODULE RpcTurnsProof ----------------------------
(***************************************************************************)
(* Proofs about RpcTurns, for any number of prompts and callers, and       *)
(* whether or not the session queue keeps two turns apart.                 *)
(*                                                                         *)
(* The invariant follows a token on its way: registered, taken out of the  *)
(* map by a removal that keeps the map locked, and fired.  The cause of a  *)
(* removal is safe as long as the turn it stops is the only one, since     *)
(* only turns erase causes.                                                *)
(***************************************************************************)
EXTENDS RpcTurns, TLAPS

Outside == {"idle", "restoring", "seeding", "found"}   \* the prompts without a turn
Takers == {c \in Callers : caller[c].at \in {"taken", "recorded"}}

(* While a removal has the token in its hands, the map is locked, so there *)
(* is one such removal at most and no token in the map.                    *)
LockKept == /\ Takers # {} => token = NoTurn
            /\ \A c, d \in Takers : c = d

(* A removal knows its cause, and has recorded it before it fires.         *)
WhyKnown == \A c \in Callers :
    caller[c].at \in {"taking", "taken", "recorded"} => caller[c].why \in {"removed", "kill"}

(* alone means what it says, from the registration on and for as long as   *)
(* the turn may turn out to be cancelled.                                  *)
AloneIsAlone == \A p, q \in Prompts :
    /\ InTurn(p) /\ prompt[p].alone
    /\ prompt[p].at = "running" \/ prompt[p].fired # "none"
    /\ p # q
    => ~InTurn(q)

(* A prompt that has no turn yet has no token that could have been fired.  *)
NotFiredYet == \A p \in Prompts : prompt[p].at \in Outside => prompt[p].fired = "none"

(* A cause is there when the token of a turn without company is fired, and *)
(* until the turn takes it.                                                *)
CauseReady == \A p \in Prompts : prompt[p].alone =>
    /\ prompt[p].at = "running" =>
         \A c \in Callers : caller[c].at = "recorded" /\ caller[c].victim = p => cause # "none"
    /\ prompt[p].at \in {"running", "ended"} /\ prompt[p].fired \in {"removed", "kill"}
         => cause # "none"

Tokens == TypeOK /\ LiveTurnCanBeStopped /\ TokenHasItsTurn /\ LockKept /\ WhyKnown
Blame  == NotFiredYet /\ AloneIsAlone /\ CauseReady /\ RemovalIsAttributed

----------------------------------------------------------------------------
(* What a step does to one prompt or one caller, field by field, while the *)
(* others stay as they are.                                                *)
PromptRecords == [at : PromptStages, fired : Causes \cup {"displaced"},
                  shown : Causes, alone : BOOLEAN]
CallerRecords == [at : CallerStages, why : Causes,
                  victim : Prompts \cup {NoTurn}, flag : BOOLEAN]

PromptIs(p, at, fired, shown, alone) ==
    /\ prompt'[p].at = at /\ prompt'[p].fired = fired
    /\ prompt'[p].shown = shown /\ prompt'[p].alone = alone
    /\ \A q \in Prompts \ {p} : prompt'[q] = prompt[q]
    /\ prompt' \in [Prompts -> PromptRecords]
CallerIs(c, at, why, victim) ==
    /\ caller'[c].at = at /\ caller'[c].why = why /\ caller'[c].victim = victim
    /\ \A d \in Callers \ {c} : caller'[d] = caller[d]
    /\ caller' \in [Callers -> CallerRecords]

(* A token is fired for the reason why, and nothing else changes.          *)
Fired(t, why) ==
    /\ prompt' \in [Prompts -> PromptRecords]
    /\ \A q \in Prompts :
         /\ prompt'[q].at = prompt[q].at /\ prompt'[q].shown = prompt[q].shown
         /\ prompt'[q].alone = prompt[q].alone
         /\ prompt'[q].fired = IF q = t /\ prompt[q].at = "running" /\ prompt[q].fired = "none"
                               THEN why ELSE prompt[q].fired

LEMMA OnePrompt ==
    ASSUME TypeOK, NEW p \in Prompts, NEW STATE r, prompt' = [prompt EXCEPT ![p] = r],
           r \in PromptRecords
    PROVE  PromptIs(p, r.at, r.fired, r.shown, r.alone)
BY DEF TypeOK, PromptIs, PromptRecords

LEMMA OneCaller ==
    ASSUME TypeOK, NEW c \in Callers, NEW STATE r, caller' = [caller EXCEPT ![c] = r],
           r \in CallerRecords
    PROVE  CallerIs(c, r.at, r.why, r.victim)
BY DEF TypeOK, CallerIs, CallerRecords

LEMMA MoveEffect ==
    ASSUME TypeOK, NEW p \in Prompts, NEW stage \in PromptStages, Move(p, stage)
    PROVE  PromptIs(p, stage, prompt[p].fired, prompt[p].shown, prompt[p].alone)
BY DEF TypeOK, Move, PromptIs, PromptRecords

LEMMA StepEffect ==
    ASSUME TypeOK, NEW c \in Callers, NEW stage \in CallerStages, Step(c, stage)
    PROVE  CallerIs(c, stage, caller[c].why, caller[c].victim)
BY DEF TypeOK, Step, CallerIs, CallerRecords

LEMMA FireEffect ==
    ASSUME TypeOK, NEW t \in Prompts \cup {NoTurn}, NEW why \in Causes \cup {"displaced"},
           prompt' = FireOf(prompt, t, why)
    PROVE  Fired(t, why)
BY TurnConstants DEF TypeOK, FireOf, TurnConstants, Fired, PromptRecords

(* A caller that is done, or goes on to drop the session.                  *)
LEMMA IdleEffect ==
    ASSUME TypeOK, NEW c \in Callers, NEW stage \in {"idle", "dropping"},
           caller' = [caller EXCEPT ![c] = [IdleCaller EXCEPT !.at = stage]]
    PROVE  CallerIs(c, stage, "none", NoTurn)
<1>. DEFINE r == [IdleCaller EXCEPT !.at = stage]
<1>1. r \in CallerRecords /\ r.at = stage /\ r.why = "none" /\ r.victim = NoTurn
  BY DEF IdleCaller, CallerRecords, CallerStages, Causes
<1>. HIDE DEF r
<1>2. caller' = [caller EXCEPT ![c] = r]
  BY DEF r
<1>3. CallerIs(c, r.at, r.why, r.victim)
  BY <1>1, <1>2, OneCaller
<1>. QED
  BY <1>1, <1>3

LEMMA DoneEffect ==
    ASSUME TypeOK, NEW c \in Callers, caller' = [caller EXCEPT ![c] = IdleCaller]
    PROVE  CallerIs(c, "idle", "none", NoTurn)
<1>1. /\ IdleCaller \in CallerRecords /\ IdleCaller.at = "idle"
      /\ IdleCaller.why = "none" /\ IdleCaller.victim = NoTurn
  BY DEF IdleCaller, CallerRecords, CallerStages, Causes
<1>2. CallerIs(c, IdleCaller.at, IdleCaller.why, IdleCaller.victim)
  BY <1>1, OneCaller
<1>. QED
  BY <1>1, <1>2

(* A caller that starts to remove the session, for the reason why.         *)
LEMMA RemoveEffect ==
    ASSUME TypeOK, NEW c \in Callers, NEW why \in Causes,
           caller' = [caller EXCEPT ![c].at = "taking", ![c].why = why]
    PROVE  CallerIs(c, "taking", why, caller[c].victim)
<1>. DEFINE r == [caller[c] EXCEPT !.at = "taking", !.why = why]
<1>1. r \in CallerRecords /\ r.at = "taking" /\ r.why = why /\ r.victim = caller[c].victim
  BY DEF TypeOK, CallerRecords, CallerStages
<1>2. caller' = [caller EXCEPT ![c] = r]
  BY DEF TypeOK
<1>. HIDE DEF r
<1>3. CallerIs(c, r.at, r.why, r.victim)
  BY <1>1, <1>2, OneCaller
<1>. QED
  BY <1>1, <1>3

(* A caller that remembers what it has read.                               *)
LEMMA FlagEffect ==
    ASSUME TypeOK, NEW c \in Callers, NEW stage \in CallerStages, NEW STATE flag,
           flag \in BOOLEAN,
           caller' = [caller EXCEPT ![c].at = stage, ![c].flag = flag]
    PROVE  CallerIs(c, stage, caller[c].why, caller[c].victim)
<1>. DEFINE r == [caller[c] EXCEPT !.at = stage, !.flag = flag]
<1>1. r \in CallerRecords /\ r.at = stage /\ r.why = caller[c].why /\ r.victim = caller[c].victim
  BY DEF TypeOK, CallerRecords, CallerStages
<1>2. caller' = [caller EXCEPT ![c] = r]
  BY DEF TypeOK
<1>. HIDE DEF r
<1>3. CallerIs(c, r.at, r.why, r.victim)
  BY <1>1, <1>2, OneCaller
<1>. QED
  BY <1>1, <1>3

----------------------------------------------------------------------------
(* The kinds of steps.  Most steps of a caller leave the tokens alone.     *)
Taking == {"taken", "recorded"}

Aside(c) ==
    /\ \E at \in CallerStages, why \in Causes, victim \in Prompts \cup {NoTurn} :
         /\ CallerIs(c, at, why, victim)
         /\ at \notin Taking
         /\ at = "taking" => why \in {"removed", "kill"}
         /\ at # "dropping"
    /\ caller[c].at \notin Taking
    /\ session' \in BOOLEAN /\ row' \in {"none", "live", "killed"}
    /\ token' = token /\ prompt' = prompt /\ cause' \in {cause, "client"}

FindsNoToken(c) ==
    /\ CallerIs(c, "dropping", "none", NoTurn)
    /\ caller[c].at \notin Taking
    /\ Takers = {} /\ token = NoTurn
    /\ UNCHANGED <<session, row, token, cause, prompt>>

TakesToken(c) ==
    /\ caller[c].at = "taking" /\ CallerIs(c, "taken", caller[c].why, token)
    /\ Takers = {} /\ token # NoTurn /\ token' = NoTurn
    /\ UNCHANGED <<session, row, cause, prompt>>

Records(c) ==
    /\ caller[c].at = "taken" /\ CallerIs(c, "recorded", caller[c].why, caller[c].victim)
    /\ cause' = caller[c].why
    /\ UNCHANGED <<session, row, token, prompt>>

FiresVictim(c) ==
    /\ caller[c].at = "recorded" /\ CallerIs(c, "dropping", "none", NoTurn)
    /\ Fired(caller[c].victim, caller[c].why)
    /\ UNCHANGED <<session, row, token, cause>>

FiresForClient(c) ==
    /\ caller[c].at = "firing" /\ CallerIs(c, "idle", "none", NoTurn)
    /\ Fired(token, "client")
    /\ UNCHANGED <<session, row, token, cause>>

LEMMA TakersLocked == TokensLocked <=> Takers # {}
BY DEF TokensLocked, Takers

LEMMA AsideKinds ==
    ASSUME TypeOK, NEW c \in Callers,
           \/ CheckOwner(c) \/ RecordClient(c) \/ CloseSession(c) \/ CheckMode(c)
           \/ MarkSessionKilled(c) \/ DropSession(c) \/ SnapshotInFlight(c)
           \/ EvictSibling(c) \/ Preload(c) \/ InsertSession(c) \/ LoadOrCreate(c)
    PROVE  Aside(c)
<1>0. /\ session \in BOOLEAN /\ row \in {"none", "live", "killed"}
      /\ caller[c].why \in Causes /\ caller[c].victim \in Prompts \cup {NoTurn}
      /\ caller[c].flag \in BOOLEAN
      /\ "none" \in Causes /\ "removed" \in Causes /\ "kill" \in Causes
  BY DEF TypeOK, Causes
<1>. USE DEF CallerStages, Taking
<1>1. CASE CheckOwner(c)
  BY <1>0, <1>1, StepEffect DEF CheckOwner, Aside
<1>2. CASE RecordClient(c)
  BY <1>0, <1>2, StepEffect DEF RecordClient, Aside
<1>3. CASE CloseSession(c)
  BY <1>0, <1>3, RemoveEffect DEF CloseSession, Aside
<1>4. CASE CheckMode(c)
  BY <1>0, <1>4, StepEffect DEF CheckMode, Aside
<1>5. CASE MarkSessionKilled(c)
  BY <1>0, <1>5, RemoveEffect, DoneEffect DEF MarkSessionKilled, Aside
<1>6. CASE DropSession(c)
  BY <1>0, <1>6, DoneEffect DEF DropSession, Aside
<1>7. CASE SnapshotInFlight(c)
  BY <1>0, <1>7, FlagEffect DEF SnapshotInFlight, Aside
<1>8. CASE EvictSibling(c)
  BY <1>0, <1>8, DoneEffect DEF EvictSibling, Aside
<1>9. CASE Preload(c)
  BY <1>0, <1>9, FlagEffect DEF Preload, Aside
<1>10. CASE InsertSession(c)
  BY <1>0, <1>10, StepEffect, DoneEffect DEF InsertSession, Aside
<1>11. CASE LoadOrCreate(c)
  BY <1>0, <1>11, RemoveEffect, DoneEffect DEF LoadOrCreate, Aside
<1>. QED
  BY <1>1, <1>2, <1>3, <1>4, <1>5, <1>6, <1>7, <1>8, <1>9, <1>10, <1>11
LEMMA CallerKinds ==
    ASSUME TypeOK, NEW c \in Callers, CallerStep(c)
    PROVE  \/ Aside(c) \/ FindsNoToken(c) \/ TakesToken(c)
           \/ Records(c) \/ FiresVictim(c) \/ FiresForClient(c)
<1>0. /\ token \in Prompts \cup {NoTurn} /\ caller \in [Callers -> CallerRecords]
      /\ caller[c].why \in Causes /\ caller[c].victim \in Prompts \cup {NoTurn}
  BY DEF TypeOK, CallerRecords
<1>1. CASE \/ CheckOwner(c) \/ RecordClient(c) \/ CloseSession(c) \/ CheckMode(c)
           \/ MarkSessionKilled(c) \/ DropSession(c) \/ SnapshotInFlight(c)
           \/ EvictSibling(c) \/ Preload(c) \/ InsertSession(c) \/ LoadOrCreate(c)
  BY <1>1, AsideKinds
<1>2. CASE FireClient(c)
  <2>1. Fired(token, "client")
    BY <1>0, <1>2, FireEffect DEF FireClient, Causes
  <2>2. CallerIs(c, "idle", "none", NoTurn)
    BY <1>2, DoneEffect DEF FireClient
  <2>. QED
    BY <1>2, <2>1, <2>2 DEF FireClient, FiresForClient
<1>3. CASE TakeToken(c)
  <2>1. CASE token = NoTurn
    <3>1. CallerIs(c, "dropping", "none", NoTurn)
      BY <1>3, <2>1, IdleEffect DEF TakeToken
    <3>. QED
      BY <1>3, <2>1, <3>1, TakersLocked DEF TakeToken, FindsNoToken, Taking
  <2>2. CASE token # NoTurn
    <3>. DEFINE r == [caller[c] EXCEPT !.at = "taken", !.victim = token]
    <3>1. r \in CallerRecords /\ r.at = "taken" /\ r.why = caller[c].why /\ r.victim = token
      BY <1>0 DEF CallerRecords, CallerStages
    <3>2. caller' = [caller EXCEPT ![c] = r]
      BY <1>0, <1>3, <2>2 DEF TakeToken
    <3>. HIDE DEF r
    <3>3. CallerIs(c, r.at, r.why, r.victim)
      BY <3>1, <3>2, OneCaller
    <3>. QED
      BY <1>3, <2>2, <3>1, <3>3, TakersLocked DEF TakeToken, TakesToken
  <2>. QED
    BY <2>1, <2>2
<1>4. CASE RecordCause(c)
  BY <1>4, StepEffect DEF RecordCause, Records, CallerStages
<1>5. CASE FireToken(c)
  <2>1. Fired(caller[c].victim, caller[c].why)
    BY <1>0, <1>5, FireEffect DEF FireToken
  <2>2. CallerIs(c, "dropping", "none", NoTurn)
    BY <1>5, IdleEffect DEF FireToken
  <2>. QED
    BY <1>5, <2>1, <2>2 DEF FireToken, FiresVictim
<1>. QED
  BY <1>1, <1>2, <1>3, <1>4, <1>5 DEF CallerStep

(* Of a prompt.                                                            *)
Waits(p) ==
    /\ prompt[p].at \in Outside
    /\ \E stage \in Outside : PromptIs(p, stage, prompt[p].fired, prompt[p].shown, prompt[p].alone)
    /\ session' \in BOOLEAN /\ UNCHANGED <<row, token, cause, caller>>

Registers(p) ==
    /\ prompt[p].at = "found"
    /\ Takers = {}
    /\ token' = p
    /\ prompt' \in [Prompts -> PromptRecords]
    /\ prompt'[p].at = "running" /\ prompt'[p].fired = prompt[p].fired
    /\ prompt'[p].shown = prompt[p].shown
    /\ prompt'[p].alone <=> \A q \in Prompts : ~InTurn(q)
    /\ \A q \in Prompts \ {p} :
         /\ prompt'[q].at = prompt[q].at /\ prompt'[q].shown = prompt[q].shown
         /\ prompt'[q].alone <=> prompt[q].alone /\ ~InTurn(q)
         /\ prompt'[q].fired = IF q = token /\ prompt[q].at = "running" /\ prompt[q].fired = "none"
                               THEN "displaced" ELSE prompt[q].fired
    /\ UNCHANGED <<session, row, cause, caller>>

Returns(p) ==
    /\ prompt[p].at = "running"
    /\ \/ PromptIs(p, "ended", "none", "none", TRUE)
       \/ prompt[p].fired # "none"
          /\ PromptIs(p, "ended", prompt[p].fired, prompt[p].shown, prompt[p].alone)
    /\ UNCHANGED <<session, row, token, cause, caller>>

TakesCause(p) ==
    /\ prompt[p].at = "ended"
    /\ PromptIs(p, "drained", prompt[p].fired,
                IF prompt[p].fired = "none" THEN prompt[p].shown ELSE cause, prompt[p].alone)
    /\ cause' = "none"
    /\ UNCHANGED <<session, row, token, caller>>

Unregisters(p) ==
    /\ prompt[p].at = "drained"
    /\ \E stage \in {"clearing", "finishing"} :
         PromptIs(p, stage, prompt[p].fired, prompt[p].shown, prompt[p].alone)
    /\ token' = IF token = p THEN NoTurn ELSE token
    /\ UNCHANGED <<session, row, cause, caller>>

ClearsCause(p) ==
    /\ prompt[p].at = "clearing"
    /\ PromptIs(p, "finishing", prompt[p].fired, prompt[p].shown, prompt[p].alone)
    /\ cause' = "none"
    /\ UNCHANGED <<session, row, token, caller>>

Leaves(p) ==
    /\ prompt[p].at = "finishing"
    /\ PromptIs(p, "idle", "none", "none", TRUE)
    /\ UNCHANGED <<session, row, token, cause, caller>>

LEMMA RegisterEffect ==
    ASSUME TypeOK, NEW p \in Prompts, RegisterCancelToken(p)
    PROVE  Registers(p)
<1>. DEFINE crowd == {q \in Prompts : InTurn(q)}
            was == FireOf(prompt, token, "displaced")
            now(q) == IF q = p
                      THEN [prompt[q] EXCEPT !.at = "running", !.alone = (crowd = {})]
                      ELSE [was[q] EXCEPT !.alone = @ /\ q \notin crowd]
<1>1. prompt' = [q \in Prompts |-> now(q)]
  BY DEF RegisterCancelToken
<1>2. /\ prompt \in [Prompts -> PromptRecords] /\ token \in Prompts \cup {NoTurn}
      /\ "displaced" \in Causes \cup {"displaced"} /\ "running" \in PromptStages
  BY DEF TypeOK, PromptRecords, PromptStages
<1>3. /\ was \in [Prompts -> PromptRecords]
      /\ \A q \in Prompts :
           /\ was[q].at = prompt[q].at /\ was[q].shown = prompt[q].shown
           /\ was[q].alone = prompt[q].alone
           /\ was[q].fired = IF q = token /\ prompt[q].at = "running" /\ prompt[q].fired = "none"
                             THEN "displaced" ELSE prompt[q].fired
  BY <1>2, TurnConstants DEF FireOf, TurnConstants, PromptRecords
<1>. HIDE DEF was
<1>4. /\ now(p) \in PromptRecords
      /\ now(p).at = "running" /\ now(p).fired = prompt[p].fired
      /\ now(p).shown = prompt[p].shown /\ now(p).alone = (crowd = {})
  BY <1>2 DEF PromptRecords
<1>5. ASSUME NEW q \in Prompts \ {p}
      PROVE  /\ now(q) \in PromptRecords
             /\ now(q).at = was[q].at /\ now(q).fired = was[q].fired
             /\ now(q).shown = was[q].shown
             /\ now(q).alone = (was[q].alone /\ q \notin crowd)
  BY <1>3 DEF PromptRecords
<1>. HIDE DEF now
<1>6. /\ prompt' \in [Prompts -> PromptRecords]
      /\ \A q \in Prompts : prompt'[q] = now(q)
  BY <1>1, <1>4, <1>5
<1>7. prompt'[p].alone <=> \A q \in Prompts : ~InTurn(q)
  BY <1>4, <1>6
<1>8. \A q \in Prompts \ {p} : prompt'[q].alone <=> prompt[q].alone /\ ~InTurn(q)
  BY <1>3, <1>5, <1>6
<1>9. /\ prompt[p].at = "found" /\ Takers = {} /\ token' = p
      /\ UNCHANGED <<session, row, cause, caller>>
  BY TakersLocked DEF RegisterCancelToken
<1>10. /\ prompt'[p].at = "running" /\ prompt'[p].fired = prompt[p].fired
       /\ prompt'[p].shown = prompt[p].shown
  BY <1>4, <1>6
<1>11. \A q \in Prompts \ {p} :
         /\ prompt'[q].at = prompt[q].at /\ prompt'[q].shown = prompt[q].shown
         /\ prompt'[q].fired = IF q = token /\ prompt[q].at = "running" /\ prompt[q].fired = "none"
                               THEN "displaced" ELSE prompt[q].fired
  BY <1>3, <1>5, <1>6
<1>. QED
  BY <1>6, <1>7, <1>8, <1>9, <1>10, <1>11 DEF Registers
LEMMA PromptKinds ==
    ASSUME TypeOK, NEW p \in Prompts, PromptStep(p)
    PROVE  \/ Waits(p) \/ Registers(p) \/ Returns(p) \/ TakesCause(p)
           \/ Unregisters(p) \/ ClearsCause(p) \/ Leaves(p)
<1>0. session \in BOOLEAN /\ cause \in Causes /\ prompt \in [Prompts -> PromptRecords]
  BY DEF TypeOK, PromptRecords
<1>1. CASE Lookup(p) \/ Rehydrate(p) \/ Seed(p) \/ Refuse(p)
  <2>1. /\ prompt[p].at \in Outside
        /\ \E stage \in Outside : Move(p, stage)
        /\ session' \in BOOLEAN /\ UNCHANGED <<row, token, cause, caller>>
    BY <1>0, <1>1 DEF Lookup, Rehydrate, Seed, Refuse, Outside
  <2>2. PICK stage \in Outside : Move(p, stage)
    BY <2>1
  <2>3. PromptIs(p, stage, prompt[p].fired, prompt[p].shown, prompt[p].alone)
    BY <2>2, MoveEffect DEF Outside, PromptStages
  <2>. QED
    BY <2>1, <2>3 DEF Waits
<1>2. CASE RegisterCancelToken(p)
  BY <1>2, RegisterEffect
<1>3. CASE ExecuteTurn(p)
  <2>. DEFINE r == [IdlePrompt EXCEPT !.at = "ended"]
  <2>1. /\ r \in PromptRecords /\ r.at = "ended" /\ r.fired = "none"
        /\ r.shown = "none" /\ r.alone = TRUE
    BY DEF IdlePrompt, PromptRecords, PromptStages, Causes
  <2>. HIDE DEF r
  <2>2. CASE prompt' = [prompt EXCEPT ![p] = r]
    <3>1. PromptIs(p, r.at, r.fired, r.shown, r.alone)
      BY <2>1, <2>2, OnePrompt
    <3>. QED
      BY <1>3, <2>1, <3>1 DEF ExecuteTurn, Returns
  <2>3. CASE prompt[p].fired # "none" /\ prompt' = [prompt EXCEPT ![p].at = "ended"]
    BY <1>3, <2>3, MoveEffect DEF ExecuteTurn, Returns, Move, PromptStages
  <2>. QED
    BY <1>3, <2>2, <2>3 DEF ExecuteTurn, r
<1>4. CASE TakeCancelCause(p)
  <2>. DEFINE shows == IF prompt[p].fired = "none" THEN prompt[p].shown ELSE cause
              r == [prompt[p] EXCEPT !.at = "drained", !.shown = shows]
  <2>1. /\ r \in PromptRecords /\ r.at = "drained" /\ r.fired = prompt[p].fired
        /\ r.shown = shows /\ r.alone = prompt[p].alone
    BY <1>0 DEF PromptRecords, PromptStages
  <2>2. prompt' = [prompt EXCEPT ![p] = r]
    BY <1>0, <1>4 DEF TakeCancelCause
  <2>. HIDE DEF r
  <2>3. PromptIs(p, r.at, r.fired, r.shown, r.alone)
    BY <2>1, <2>2, OnePrompt
  <2>. QED
    BY <1>4, <2>1, <2>3 DEF TakeCancelCause, TakesCause
<1>5. CASE RemoveCancelToken(p)
  BY <1>5, MoveEffect DEF RemoveCancelToken, Unregisters, PromptStages
<1>6. CASE ClearCause(p)
  BY <1>6, MoveEffect DEF ClearCause, ClearsCause, PromptStages
<1>7. CASE Finish(p)
  <2>1. /\ IdlePrompt \in PromptRecords /\ IdlePrompt.at = "idle" /\ IdlePrompt.fired = "none"
        /\ IdlePrompt.shown = "none" /\ IdlePrompt.alone = TRUE
    BY DEF IdlePrompt, PromptRecords, PromptStages, Causes
  <2>2. PromptIs(p, IdlePrompt.at, IdlePrompt.fired, IdlePrompt.shown, IdlePrompt.alone)
    BY <1>7, <2>1, OnePrompt DEF Finish
  <2>. QED
    BY <1>7, <2>1, <2>2 DEF Finish, Leaves
<1>. QED
  BY <1>1, <1>2, <1>3, <1>4, <1>5, <1>6, <1>7 DEF PromptStep
----------------------------------------------------------------------------
(* The way of the tokens.                                                  *)
LEMMA LockStays ==
    ASSUME TypeOK, LockKept, WhyKnown, NEW c \in Callers, NEW STATE at, NEW STATE why,
           NEW STATE victim, CallerIs(c, at, why, victim), at \notin Taking,
           at = "taking" => why \in {"removed", "kill"}, token' = token
    PROVE  LockKept' /\ WhyKnown'
<1>1. \A d \in Callers : caller'[d].at \in Taking => d \in Takers
  BY DEF CallerIs, Takers, Taking
<1>2. Takers' \subseteq Takers
  BY <1>1 DEF Takers, Taking
<1>3. LockKept'
  BY <1>2 DEF LockKept
<1>4. WhyKnown'
  BY DEF WhyKnown, CallerIs, Taking
<1>. QED
  BY <1>3, <1>4

LEMMA TokensKept ==
    ASSUME Tokens, Next
    PROVE  Tokens'
<1>0. TypeOK /\ LiveTurnCanBeStopped /\ TokenHasItsTurn /\ LockKept /\ WhyKnown
  BY DEF Tokens
<1>. USE DEF Tokens, WhyKnown, TypeOK, LiveTurnCanBeStopped, TokenHasItsTurn, LockKept, Takers, Taking,
             PromptRecords, CallerRecords
<1>1. ASSUME NEW c \in Callers, CallerStep(c)
      PROVE  Tokens'
  <2>1. CASE Aside(c)
    <3>1. TypeOK'
      BY <1>0, <2>1, TurnConstants DEF Aside, CallerIs, TurnConstants, Causes
    <3>2. LiveTurnCanBeStopped'
      BY <1>0, <2>1, TurnConstants DEF Aside, CallerIs, TurnConstants, Causes
    <3>3. TokenHasItsTurn'
      BY <1>0, <2>1, TurnConstants DEF Aside, CallerIs, TurnConstants, Causes
    <3>4. LockKept' /\ WhyKnown'
      BY <1>0, <2>1, LockStays DEF Aside
    <3>. QED
      BY <3>1, <3>2, <3>3, <3>4
  <2>2. CASE FindsNoToken(c)
    BY <1>0, <2>2, TurnConstants DEF FindsNoToken, CallerIs, TurnConstants, Causes
  <2>3. CASE TakesToken(c)
    BY <1>0, <2>3, TurnConstants DEF TakesToken, CallerIs, TurnConstants, Causes
  <2>4. CASE Records(c)
    BY <1>0, <2>4, TurnConstants DEF Records, CallerIs, TurnConstants, Causes
  <2>5. CASE FiresVictim(c)
    <3>1. TypeOK'
      BY <1>0, <2>5, TurnConstants DEF FiresVictim, CallerIs, Fired, TurnConstants, Causes
    <3>2. ASSUME NEW p \in Prompts, prompt'[p].at = "running", prompt'[p].fired = "none"
          PROVE  \/ token' = p
                 \/ \E d \in Callers : caller'[d].at \in Taking /\ caller'[d].victim = p
      <4>1. prompt[p].at = "running" /\ prompt[p].fired = "none" /\ p # caller[c].victim
        BY <1>0, <2>5, <3>2 DEF FiresVictim, Fired
      <4>2. CASE token = p
        BY <2>5, <4>2 DEF FiresVictim
      <4>3. CASE \E d \in Callers : caller[d].at \in Taking /\ caller[d].victim = p
        BY <2>5, <4>1, <4>3 DEF FiresVictim, CallerIs
      <4>. QED
        BY <1>0, <4>1, <4>2, <4>3
    <3>3. TokenHasItsTurn'
      BY <1>0, <2>5, TurnConstants DEF FiresVictim, CallerIs, Fired, TurnConstants, Causes
    <3>4. LockKept' /\ WhyKnown'
      BY <1>0, <2>5, LockStays DEF FiresVictim
    <3>. QED
      BY <3>1, <3>2, <3>3, <3>4
  <2>6. CASE FiresForClient(c)
    <3>1. TypeOK'
      BY <1>0, <2>6, TurnConstants DEF FiresForClient, CallerIs, Fired, TurnConstants, Causes
    <3>2. ASSUME NEW p \in Prompts, prompt'[p].at = "running", prompt'[p].fired = "none"
          PROVE  \/ token' = p
                 \/ \E d \in Callers : caller'[d].at \in Taking /\ caller'[d].victim = p
      <4>1. prompt[p].at = "running" /\ prompt[p].fired = "none" /\ p # token
        BY <1>0, <2>6, <3>2 DEF FiresForClient, Fired
      <4>2. CASE token = p
        BY <2>6, <4>2 DEF FiresForClient
      <4>3. CASE \E d \in Callers : caller[d].at \in Taking /\ caller[d].victim = p
        BY <2>6, <4>1, <4>3 DEF FiresForClient, CallerIs
      <4>. QED
        BY <1>0, <4>1, <4>2, <4>3
    <3>3. TokenHasItsTurn'
      BY <1>0, <2>6, TurnConstants DEF FiresForClient, CallerIs, Fired, TurnConstants, Causes
    <3>4. LockKept' /\ WhyKnown'
      BY <1>0, <2>6, LockStays DEF FiresForClient
    <3>. QED
      BY <3>1, <3>2, <3>3, <3>4
  <2>. QED
    BY <1>0, <1>1, <2>1, <2>2, <2>3, <2>4, <2>5, <2>6, CallerKinds
<1>2. ASSUME NEW p \in Prompts, PromptStep(p)
      PROVE  Tokens'
  <2>1. CASE Waits(p)
    BY <1>0, <2>1, TurnConstants DEF Waits, PromptIs, TurnConstants, Outside, Causes
  <2>2. CASE Registers(p)
    BY <1>0, <2>2, TurnConstants DEF Registers, PromptIs, TurnConstants, Outside, Causes
  <2>3. CASE Returns(p)
    BY <1>0, <2>3, TurnConstants DEF Returns, PromptIs, TurnConstants, Outside, Causes
  <2>4. CASE TakesCause(p)
    BY <1>0, <2>4, TurnConstants DEF TakesCause, PromptIs, TurnConstants, Outside, Causes
  <2>5. CASE Unregisters(p)
    BY <1>0, <2>5, TurnConstants DEF Unregisters, PromptIs, TurnConstants, Outside, Causes
  <2>6. CASE ClearsCause(p)
    BY <1>0, <2>6, TurnConstants DEF ClearsCause, PromptIs, TurnConstants, Outside, Causes
  <2>7. CASE Leaves(p)
    BY <1>0, <2>7, TurnConstants DEF Leaves, PromptIs, TurnConstants, Outside, Causes
  <2>. QED
    BY <1>0, <1>2, <2>1, <2>2, <2>3, <2>4, <2>5, <2>6, <2>7, PromptKinds
<1>. QED
  BY <1>1, <1>2 DEF Next
----------------------------------------------------------------------------
(* The way of the causes.                                                  *)
LEMMA BlameKept ==
    ASSUME Tokens, Blame, Next
    PROVE  Blame'
<1>0. /\ TypeOK /\ LockKept /\ WhyKnown
      /\ NotFiredYet /\ AloneIsAlone /\ CauseReady /\ RemovalIsAttributed
  BY DEF Tokens, Blame
<1>. USE DEF AloneIsAlone, InTurn
<1>1. ASSUME NEW c \in Callers, CallerStep(c)
      PROVE  NotFiredYet' /\ AloneIsAlone' /\ CauseReady' /\ RemovalIsAttributed'
  <2>1. CASE Aside(c)
    <3>0. NotFiredYet'
      BY <1>0, <2>1 DEF Aside, CallerIs, TypeOK, NotFiredYet, Outside
    <3>1. AloneIsAlone'
      BY <1>0, <2>1 DEF Aside, CallerIs, TypeOK
    <3>2. CauseReady'
      BY <1>0, <2>1 DEF Aside, CallerIs, CauseReady, WhyKnown, LockKept, Takers, Taking, TypeOK, Causes
    <3>3. RemovalIsAttributed'
      BY <1>0, <2>1 DEF Aside, CallerIs, RemovalIsAttributed, TypeOK
    <3>. QED
      BY <3>0, <3>1, <3>2, <3>3
  <2>2. CASE FindsNoToken(c)
    <3>0. NotFiredYet'
      BY <1>0, <2>2 DEF FindsNoToken, CallerIs, TypeOK, NotFiredYet, Outside
    <3>1. AloneIsAlone'
      BY <1>0, <2>2 DEF FindsNoToken, CallerIs, TypeOK
    <3>2. CauseReady'
      BY <1>0, <2>2 DEF FindsNoToken, CallerIs, CauseReady, WhyKnown, LockKept, Takers, Taking, TypeOK, Causes
    <3>3. RemovalIsAttributed'
      BY <1>0, <2>2 DEF FindsNoToken, CallerIs, RemovalIsAttributed, TypeOK
    <3>. QED
      BY <3>0, <3>1, <3>2, <3>3
  <2>3. CASE TakesToken(c)
    <3>0. NotFiredYet'
      BY <1>0, <2>3 DEF TakesToken, CallerIs, TypeOK, NotFiredYet, Outside
    <3>1. AloneIsAlone'
      BY <1>0, <2>3 DEF TakesToken, CallerIs, TypeOK
    <3>2. CauseReady'
      BY <1>0, <2>3 DEF TakesToken, CallerIs, CauseReady, WhyKnown, LockKept, Takers, Taking, TypeOK, Causes
    <3>3. RemovalIsAttributed'
      BY <1>0, <2>3 DEF TakesToken, CallerIs, RemovalIsAttributed, TypeOK
    <3>. QED
      BY <3>0, <3>1, <3>2, <3>3
  <2>4. CASE Records(c)
    <3>0. NotFiredYet'
      BY <1>0, <2>4 DEF Records, CallerIs, TypeOK, NotFiredYet, Outside
    <3>1. AloneIsAlone'
      BY <1>0, <2>4 DEF Records, CallerIs, TypeOK
    <3>2. CauseReady'
      BY <1>0, <2>4 DEF Records, CallerIs, CauseReady, WhyKnown, LockKept, Takers, Taking, TypeOK, Causes
    <3>3. RemovalIsAttributed'
      BY <1>0, <2>4 DEF Records, CallerIs, RemovalIsAttributed, TypeOK
    <3>. QED
      BY <3>0, <3>1, <3>2, <3>3
  <2>5. CASE FiresVictim(c)
    <3>0. NotFiredYet'
      BY <1>0, <2>5 DEF FiresVictim, CallerIs, Fired, TypeOK, NotFiredYet, Outside
    <3>1. AloneIsAlone'
      BY <1>0, <2>5 DEF FiresVictim, CallerIs, Fired, TypeOK
    <3>2. CauseReady'
      <4>1. /\ cause' = cause
            /\ \A q \in Prompts : prompt'[q].at = prompt[q].at /\ prompt'[q].alone = prompt[q].alone
            /\ \A d \in Callers : caller'[d].at = "recorded" =>
                 caller[d].at = "recorded" /\ caller[d].victim = caller'[d].victim
        BY <2>5 DEF FiresVictim, CallerIs, Fired
      <4>2. ASSUME NEW q \in Prompts, prompt'[q].alone, prompt'[q].at \in {"running", "ended"},
                   prompt'[q].fired \in {"removed", "kill"}
            PROVE  cause' # "none"
        <5>1. CASE prompt'[q].fired = prompt[q].fired
          BY <1>0, <4>1, <4>2, <5>1 DEF CauseReady
        <5>2. CASE prompt'[q].fired # prompt[q].fired
          <6>1. q = caller[c].victim /\ prompt[q].at = "running" /\ caller[c].at = "recorded"
            BY <2>5, <5>2 DEF FiresVictim, Fired
          <6>. QED
            BY <1>0, <4>1, <4>2, <6>1 DEF CauseReady
        <5>. QED
          BY <5>1, <5>2
      <4>3. ASSUME NEW q \in Prompts, prompt'[q].alone, prompt'[q].at = "running",
                   NEW d \in Callers, caller'[d].at = "recorded", caller'[d].victim = q
            PROVE  cause' # "none"
        BY <1>0, <4>1, <4>3 DEF CauseReady
      <4>. QED
        BY <4>2, <4>3 DEF CauseReady
    <3>3. RemovalIsAttributed'
      BY <1>0, <2>5 DEF FiresVictim, CallerIs, Fired, RemovalIsAttributed, TypeOK
    <3>. QED
      BY <3>0, <3>1, <3>2, <3>3
  <2>6. CASE FiresForClient(c)
    <3>0. NotFiredYet'
      BY <1>0, <2>6 DEF FiresForClient, CallerIs, Fired, TypeOK, NotFiredYet, Outside
    <3>1. AloneIsAlone'
      BY <1>0, <2>6 DEF FiresForClient, CallerIs, Fired, TypeOK
    <3>2. CauseReady'
      BY <1>0, <2>6 DEF FiresForClient, CallerIs, Fired, CauseReady, WhyKnown, LockKept, Takers, Taking, TypeOK, Causes
    <3>3. RemovalIsAttributed'
      BY <1>0, <2>6 DEF FiresForClient, CallerIs, Fired, RemovalIsAttributed, TypeOK
    <3>. QED
      BY <3>0, <3>1, <3>2, <3>3
  <2>. QED
    BY <1>0, <1>1, <2>1, <2>2, <2>3, <2>4, <2>5, <2>6, CallerKinds
<1>2. ASSUME NEW p \in Prompts, PromptStep(p)
      PROVE  NotFiredYet' /\ AloneIsAlone' /\ CauseReady' /\ RemovalIsAttributed'
  <2>1. CASE Waits(p)
    <3>0. NotFiredYet'
      BY <1>0, <2>1 DEF Waits, PromptIs, TypeOK, NotFiredYet, Outside
    <3>1. AloneIsAlone'
      BY <1>0, <2>1 DEF Waits, PromptIs, TypeOK, Outside
    <3>2. CauseReady'
      BY <1>0, <2>1 DEF Waits, PromptIs, CauseReady, WhyKnown, Takers, TypeOK, Outside
    <3>3. RemovalIsAttributed'
      BY <1>0, <2>1 DEF Waits, PromptIs, RemovalIsAttributed, CauseReady, TypeOK, Outside
    <3>. QED
      BY <3>0, <3>1, <3>2, <3>3
  <2>2. CASE Registers(p)
    <3>0. NotFiredYet'
      BY <1>0, <2>2 DEF Registers, PromptIs, TypeOK, NotFiredYet, Outside
    <3>1. AloneIsAlone'
      BY <1>0, <2>2 DEF Registers, PromptIs, TypeOK, Outside
    <3>2. CauseReady'
      BY <1>0, <2>2 DEF Registers, PromptIs, NotFiredYet, CauseReady, WhyKnown, Takers, TypeOK, Outside
    <3>3. RemovalIsAttributed'
      BY <1>0, <2>2 DEF Registers, PromptIs, RemovalIsAttributed, CauseReady, TypeOK, Outside
    <3>. QED
      BY <3>0, <3>1, <3>2, <3>3
  <2>3. CASE Returns(p)
    <3>0. NotFiredYet'
      BY <1>0, <2>3 DEF Returns, PromptIs, TypeOK, NotFiredYet, Outside
    <3>1. AloneIsAlone'
      BY <1>0, <2>3 DEF Returns, PromptIs, TypeOK, Outside
    <3>2. CauseReady'
      BY <1>0, <2>3 DEF Returns, PromptIs, CauseReady, WhyKnown, Takers, TypeOK, Outside
    <3>3. RemovalIsAttributed'
      BY <1>0, <2>3 DEF Returns, PromptIs, RemovalIsAttributed, CauseReady, TypeOK, Outside
    <3>. QED
      BY <3>0, <3>1, <3>2, <3>3
  <2>4. CASE TakesCause(p)
    <3>0. NotFiredYet'
      BY <1>0, <2>4 DEF TakesCause, PromptIs, TypeOK, NotFiredYet, Outside
    <3>1. AloneIsAlone'
      BY <1>0, <2>4 DEF TakesCause, PromptIs, TypeOK, Outside
    <3>2. CauseReady'
      BY <1>0, <2>4 DEF TakesCause, PromptIs, CauseReady, WhyKnown, Takers, TypeOK, Outside
    <3>3. RemovalIsAttributed'
      BY <1>0, <2>4 DEF TakesCause, PromptIs, RemovalIsAttributed, CauseReady, TypeOK, Outside
    <3>. QED
      BY <3>0, <3>1, <3>2, <3>3
  <2>5. CASE Unregisters(p)
    <3>0. NotFiredYet'
      BY <1>0, <2>5 DEF Unregisters, PromptIs, TypeOK, NotFiredYet, Outside
    <3>1. AloneIsAlone'
      BY <1>0, <2>5 DEF Unregisters, PromptIs, TypeOK, Outside
    <3>2. CauseReady'
      BY <1>0, <2>5 DEF Unregisters, PromptIs, CauseReady, WhyKnown, Takers, TypeOK, Outside
    <3>3. RemovalIsAttributed'
      BY <1>0, <2>5 DEF Unregisters, PromptIs, RemovalIsAttributed, CauseReady, TypeOK, Outside
    <3>. QED
      BY <3>0, <3>1, <3>2, <3>3
  <2>6. CASE ClearsCause(p)
    <3>0. NotFiredYet'
      BY <1>0, <2>6 DEF ClearsCause, PromptIs, TypeOK, NotFiredYet, Outside
    <3>1. AloneIsAlone'
      BY <1>0, <2>6 DEF ClearsCause, PromptIs, TypeOK, Outside
    <3>2. CauseReady'
      BY <1>0, <2>6 DEF ClearsCause, PromptIs, CauseReady, WhyKnown, Takers, TypeOK, Outside
    <3>3. RemovalIsAttributed'
      BY <1>0, <2>6 DEF ClearsCause, PromptIs, RemovalIsAttributed, CauseReady, TypeOK, Outside
    <3>. QED
      BY <3>0, <3>1, <3>2, <3>3
  <2>7. CASE Leaves(p)
    <3>0. NotFiredYet'
      BY <1>0, <2>7 DEF Leaves, PromptIs, TypeOK, NotFiredYet, Outside
    <3>1. AloneIsAlone'
      BY <1>0, <2>7 DEF Leaves, PromptIs, TypeOK, Outside
    <3>2. CauseReady'
      BY <1>0, <2>7 DEF Leaves, PromptIs, CauseReady, WhyKnown, Takers, TypeOK, Outside
    <3>3. RemovalIsAttributed'
      BY <1>0, <2>7 DEF Leaves, PromptIs, RemovalIsAttributed, CauseReady, TypeOK, Outside
    <3>. QED
      BY <3>0, <3>1, <3>2, <3>3
  <2>. QED
    BY <1>0, <1>2, <2>1, <2>2, <2>3, <2>4, <2>5, <2>6, <2>7, PromptKinds
<1>. QED
  BY <1>1, <1>2 DEF Next, Blame
----------------------------------------------------------------------------
LEMMA InvariantHolds == Spec => [](Tokens /\ Blame)
<1>1. ASSUME Init
      PROVE  Tokens /\ Blame
  <2>1. /\ \A p \in Prompts : prompt[p] = IdlePrompt
        /\ \A c \in Callers : caller[c] = IdleCaller
    BY <1>1 DEF Init
  <2>2. /\ IdlePrompt.at = "idle" /\ IdlePrompt.fired = "none"
        /\ IdlePrompt \in [at : PromptStages, fired : Causes \cup {"displaced"},
                           shown : Causes, alone : BOOLEAN]
    BY DEF IdlePrompt, PromptStages, Causes
  <2>3. /\ IdleCaller.at = "idle"
        /\ IdleCaller \in [at : CallerStages, why : Causes,
                           victim : Prompts \cup {NoTurn}, flag : BOOLEAN]
    BY DEF IdleCaller, CallerStages, Causes
  <2>4. TypeOK
    BY <1>1, <2>2, <2>3 DEF Init, TypeOK, Causes
  <2>5. LiveTurnCanBeStopped /\ TokenHasItsTurn /\ LockKept /\ WhyKnown
    BY <1>1, <2>1, <2>2, <2>3
       DEF Init, LiveTurnCanBeStopped, TokenHasItsTurn, LockKept, Takers, WhyKnown
  <2>6. Blame
    BY <2>1, <2>2, <2>3
       DEF Blame, NotFiredYet, AloneIsAlone, CauseReady, RemovalIsAttributed, InTurn
  <2>. QED
    BY <2>4, <2>5, <2>6 DEF Tokens
<1>2. Tokens /\ Blame /\ Next => Tokens' /\ Blame'
  BY TokensKept, BlameKept
<1>3. Tokens /\ Blame /\ UNCHANGED vars => Tokens' /\ Blame'
  BY DEF vars, Tokens, Blame, TypeOK, LiveTurnCanBeStopped, TokenHasItsTurn, LockKept,
     Takers, WhyKnown, NotFiredYet, AloneIsAlone, CauseReady, RemovalIsAttributed, InTurn
<1>. QED
  BY <1>1, <1>2, <1>3, PTL DEF Spec

(* Types, for any number of prompts and callers.                           *)
THEOREM TypesHold == Spec => []TypeOK
BY InvariantHolds, PTL DEF Tokens

(* cancel_session, kill_session and remove find, or have in their hands,   *)
(* the token of every turn that nobody has told to stop.                   *)
THEOREM TurnsCanBeStopped == Spec => []LiveTurnCanBeStopped
BY InvariantHolds, PTL DEF Tokens

(* remove_cancel_token leaves no token behind: what evict_same_mode_sibling*)
(* takes for a turn in flight is one.                                      *)
THEOREM TokensHaveTurns == Spec => []TokenHasItsTurn
BY InvariantHolds, PTL DEF Tokens

(* take_cancel_cause finds the cause of a close or a kill.                 *)
THEOREM RemovalsAreAttributed == Spec => []RemovalIsAttributed
BY InvariantHolds, PTL DEF Blame

(* No turn runs on in a session that a close or a kill is about to drop.   *)
THEOREM RemovalsStopTurns == Spec => RemovalStopsTheTurns
<1>. DEFINE Stops == \A c \in Callers :
                       caller[c].at # "dropping" /\ caller'[c].at = "dropping" =>
                         \A p \in Prompts : prompt'[p].at = "running" => prompt'[p].fired # "none"
<1>1. Tokens /\ Next => Stops
  <2>. SUFFICES ASSUME Tokens, Next, NEW c \in Callers,
                       caller[c].at # "dropping", caller'[c].at = "dropping",
                       NEW p \in Prompts, prompt'[p].at = "running", prompt'[p].fired = "none"
                PROVE  FALSE
    OBVIOUS
  <2>0. TypeOK /\ LiveTurnCanBeStopped /\ LockKept /\ WhyKnown
    BY DEF Tokens
  <2>1. ASSUME NEW q \in Prompts, PromptStep(q) PROVE FALSE
    <3>1. UNCHANGED caller
      BY <2>0, <2>1, PromptKinds DEF Waits, Registers, Returns, TakesCause, Unregisters,
         ClearsCause, Leaves
    <3>. QED
      BY <3>1
  <2>2. ASSUME NEW d \in Callers, CallerStep(d) PROVE FALSE
    <3>1. c = d
      BY <2>0, <2>2, CallerKinds DEF Aside, FindsNoToken, TakesToken, Records, FiresVictim,
         FiresForClient, CallerIs
    <3>2. FindsNoToken(c) \/ FiresVictim(c)
      BY <2>0, <2>2, <3>1, CallerKinds DEF Aside, TakesToken, Records, FiresForClient, CallerIs
    <3>3. CASE FindsNoToken(c)
      BY <2>0, <3>3, TurnConstants DEF FindsNoToken, LiveTurnCanBeStopped, Takers, TurnConstants
    <3>4. CASE FiresVictim(c)
      <4>1. prompt[p].at = "running" /\ prompt[p].fired = "none" /\ p # caller[c].victim
        BY <2>0, <3>4 DEF FiresVictim, Fired, WhyKnown
      <4>2. Takers = {c} /\ token = NoTurn
        BY <2>0, <3>4 DEF FiresVictim, Takers, LockKept
      <4>. QED
        BY <2>0, <4>1, <4>2, TurnConstants DEF LiveTurnCanBeStopped, Takers, TurnConstants
    <3>. QED
      BY <3>2, <3>3, <3>4
  <2>. QED
    BY <2>1, <2>2 DEF Next
<1>2. UNCHANGED vars => Stops
  BY DEF vars
<1>. QED
  BY <1>1, <1>2, InvariantHolds, PTL DEF Spec, RemovalStopsTheTurns
=============================================================================
