------------------------------ MODULE RpcTurns ------------------------------
(***************************************************************************)
(* The prompts of one RPC session: how a turn is registered, cancelled and *)
(* closed, while other connections cancel, kill, close, evict or resume    *)
(* the session (rpc/session.rs, rpc/dispatch.rs, rpc/turn.rs).             *)
(*                                                                         *)
(* The store keeps three maps under three locks: sessions, cancel tokens   *)
(* and cancel causes.  An action is what happens under one lock; the       *)
(* handlers may meet between any two of them.  An `if let` over the locked *)
(* token map keeps that lock until its block ends, hence TokensLocked.     *)
(***************************************************************************)
EXTENDS Naturals, FiniteSets

CONSTANTS
    Prompts,    \* requests session/prompt that may be under way at a time
    Callers,    \* the other requests that may be under way at a time
    NoTurn,     \* the session has no token
    Overlap     \* whether the session queue may admit two requests at once

ASSUME TurnConstants == NoTurn \notin Prompts /\ Overlap \in BOOLEAN

VARIABLES
    session,    \* whether the session is in the map
    row,        \* the durable row: "none", "live" or "killed"
    token,      \* whose token is registered
    cause,      \* the recorded cause of a cancel
    prompt,     \* the prompts
    caller      \* the other requests

vars == <<session, row, token, cause, prompt, caller>>

Causes == {"client", "removed", "kill", "none"}

(* Of a prompt: how far it is, who fired its token (after execute_turn: if *)
(* the turn was cancelled), the cause its verdict shows, and whether no    *)
(* other turn of the session has been under way beside it.                 *)
IdlePrompt == [at |-> "idle", fired |-> "none", shown |-> "none", alone |-> TRUE]
IdleCaller == [at |-> "idle", why |-> "none", victim |-> NoTurn, flag |-> FALSE]

PromptStages == {"idle", "restoring", "seeding", "found", "running",
                 "ended", "drained", "clearing", "finishing"}
CallerStages == {"idle", "cancel", "firing", "kill", "taking", "taken",
                 "recorded", "dropping", "evicting", "inserting", "loading"}

Init ==
    /\ session = FALSE
    /\ row = "none"
    /\ token = NoTurn
    /\ cause = "none"
    /\ prompt = [p \in Prompts |-> IdlePrompt]
    /\ caller = [c \in Callers |-> IdleCaller]

InTurn(p) == prompt[p].at \in {"running", "ended", "drained", "clearing", "finishing"}

(* `remove` and `kill_session` hold the token map from the removal of the  *)
(* token until it is fired.                                                *)
TokensLocked == \E c \in Callers : caller[c].at \in {"taken", "recorded"}

Move(p, stage) == prompt' = [prompt EXCEPT ![p].at = stage]

(* p's token, fired for the reason why.  Firing it again changes nothing,  *)
(* nor does firing it when execute_turn has returned.                      *)
FireOf(pr, p, why) ==
    IF p # NoTurn /\ pr[p].at = "running" /\ pr[p].fired = "none"
    THEN [pr EXCEPT ![p].fired = why]
    ELSE pr

-----------------------------------------------------------------------------
(* session/prompt.                                                         *)

(* The agent is looked up before the queue is entered.  A session that is  *)
(* not in the map is rebuilt from its row; any other is answered with an   *)
(* error.                                                                  *)
Lookup(p) ==
    /\ prompt[p].at = "idle"
    /\ \/ session /\ Move(p, "found")
       \/ ~session /\ row = "live" /\ Move(p, "restoring")
    /\ UNCHANGED <<session, row, token, cause, caller>>

(* The rebuilt session overwrites one that was inserted meanwhile.         *)
Rehydrate(p) ==
    /\ prompt[p].at = "restoring"
    /\ session' = TRUE
    /\ Move(p, "seeding")
    /\ UNCHANGED <<row, token, cause, caller>>

(* The agent is read back from the map, where it may be gone again.        *)
Seed(p) ==
    /\ prompt[p].at = "seeding"
    /\ Move(p, IF session THEN "found" ELSE "idle")
    /\ UNCHANGED <<session, row, token, cause, caller>>

(* No agent could be built, the session limit is reached, the queue is     *)
(* full, or the wait for it took too long.                                 *)
Refuse(p) ==
    /\ prompt[p].at \in {"restoring", "found"}
    /\ Move(p, "idle")
    /\ UNCHANGED <<session, row, token, cause, caller>>

(* Mutant: the displaced token is thrown away without being fired.         *)
RegisterOverSilently(p) ==
    /\ prompt[p].at = "found"
    /\ Overlap \/ \A q \in Prompts : ~InTurn(q)
    /\ ~TokensLocked
    /\ token' = p
    /\ LET crowd == {q \in Prompts : InTurn(q)} IN
       prompt' = [q \in Prompts |->
                    IF q = p
                    THEN [prompt[q] EXCEPT !.at = "running", !.alone = (crowd = {})]
                    ELSE [prompt[q] EXCEPT !.alone = @ /\ q \notin crowd]]
    /\ UNCHANGED <<session, row, cause, caller>>

(* The queue admits the request, which keeps its guard to the end.  A      *)
(* token that is still registered is displaced and fired.                  *)
RegisterCancelToken(p) ==
    /\ prompt[p].at = "found"
    /\ Overlap \/ \A q \in Prompts : ~InTurn(q)
    /\ ~TokensLocked
    /\ token' = p
    /\ LET crowd == {q \in Prompts : InTurn(q)} IN
       prompt' = [q \in Prompts |->
                    IF q = p
                    THEN [prompt[q] EXCEPT !.at = "running", !.alone = (crowd = {})]
                    ELSE [FireOf(prompt, token, "displaced")[q] EXCEPT
                            !.alone = @ /\ q \notin crowd]]
    /\ UNCHANGED <<session, row, cause, caller>>

(* execute_turn returns.  Only a fired token makes it answer "cancelled"   *)
(* (in the end by abort, after the grace), and a fired one may come too    *)
(* late to do so.                                                          *)
ExecuteTurn(p) ==
    /\ prompt[p].at = "running"
    /\ \/ prompt' = [prompt EXCEPT ![p] = [IdlePrompt EXCEPT !.at = "ended"]]
       \/ /\ prompt[p].fired # "none"
          /\ prompt' = [prompt EXCEPT ![p].at = "ended"]
    /\ UNCHANGED <<session, row, token, cause, caller>>

TakeCancelCause(p) ==
    /\ prompt[p].at = "ended"
    /\ prompt' = [prompt EXCEPT ![p].at = "drained",
                                ![p].shown = IF prompt[p].fired = "none" THEN @ ELSE cause]
    /\ cause' = "none"
    /\ UNCHANGED <<session, row, token, caller>>

(* Mutant: whatever token is registered goes.                              *)
RemoveAnyToken(p) ==
    /\ prompt[p].at = "drained"
    /\ ~TokensLocked
    /\ IF token # NoTurn THEN token' = NoTurn /\ Move(p, "clearing")
                         ELSE UNCHANGED token /\ Move(p, "finishing")
    /\ UNCHANGED <<session, row, cause, caller>>

(* The token goes only if it is still this turn's; the cause goes with it, *)
(* under a lock of its own.                                                *)
RemoveCancelToken(p) ==
    /\ prompt[p].at = "drained"
    /\ ~TokensLocked
    /\ IF token = p THEN token' = NoTurn /\ Move(p, "clearing")
                    ELSE UNCHANGED token /\ Move(p, "finishing")
    /\ UNCHANGED <<session, row, cause, caller>>

ClearCause(p) ==
    /\ prompt[p].at = "clearing"
    /\ cause' = "none"
    /\ Move(p, "finishing")
    /\ UNCHANGED <<session, row, token, caller>>

(* The turn is saved and answered, and the queue's guard is dropped.       *)
Finish(p) ==
    /\ prompt[p].at = "finishing"
    /\ prompt' = [prompt EXCEPT ![p] = IdlePrompt]
    /\ UNCHANGED <<session, row, token, cause, caller>>

-----------------------------------------------------------------------------
(* session/cancel.                                                         *)

Step(c, stage) == caller' = [caller EXCEPT ![c].at = stage]

(* The caller must own the session, which must be in the map.              *)
CheckOwner(c) ==
    /\ caller[c].at = "idle"
    /\ session
    /\ Step(c, "cancel")
    /\ UNCHANGED <<session, row, token, cause, prompt>>

(* The cause is recorded whether or not a turn is registered.              *)
RecordClient(c) ==
    /\ caller[c].at = "cancel"
    /\ cause' = "client"
    /\ Step(c, "firing")
    /\ UNCHANGED <<session, row, token, prompt>>

FireClient(c) ==
    /\ caller[c].at = "firing"
    /\ ~TokensLocked
    /\ prompt' = FireOf(prompt, token, "client")
    /\ caller' = [caller EXCEPT ![c] = IdleCaller]
    /\ UNCHANGED <<session, row, token, cause>>

-----------------------------------------------------------------------------
(* session/close, session/delete and session/kill.                         *)

(* They wait for the agent's lock before, which a turn holds; the next     *)
(* turn may begin as soon as they have had it.                             *)
CloseSession(c) ==
    /\ caller[c].at = "idle"
    /\ caller' = [caller EXCEPT ![c].at = "taking", ![c].why = "removed"]
    /\ UNCHANGED <<session, row, token, cause, prompt>>

CheckMode(c) ==
    /\ caller[c].at = "idle"
    /\ session
    /\ Step(c, "kill")
    /\ UNCHANGED <<session, row, token, cause, prompt>>

(* The tombstone comes first; if it cannot be written nothing is killed.   *)
MarkSessionKilled(c) ==
    /\ caller[c].at = "kill"
    /\ \/ /\ row' = IF row = "live" THEN "killed" ELSE row
          /\ caller' = [caller EXCEPT ![c].at = "taking", ![c].why = "kill"]
       \/ /\ caller' = [caller EXCEPT ![c] = IdleCaller]
          /\ UNCHANGED row
    /\ UNCHANGED <<session, token, cause, prompt>>

(* Mutant: the token is fired first, and the cause recorded after it.      *)
TakeTokenFiring(c) ==
    /\ caller[c].at = "taking"
    /\ ~TokensLocked
    /\ token' = NoTurn
    /\ prompt' = FireOf(prompt, token, caller[c].why)
    /\ caller' = [caller EXCEPT ![c] =
                    IF token = NoTurn THEN [IdleCaller EXCEPT !.at = "dropping"]
                    ELSE [@ EXCEPT !.at = "taken", !.victim = token]]
    /\ UNCHANGED <<session, row, cause>>

TakeToken(c) ==
    /\ caller[c].at = "taking"
    /\ ~TokensLocked
    /\ token' = NoTurn
    /\ caller' = [caller EXCEPT ![c] =
                    IF token = NoTurn THEN [IdleCaller EXCEPT !.at = "dropping"]
                    ELSE [@ EXCEPT !.at = "taken", !.victim = token]]
    /\ UNCHANGED <<session, row, cause, prompt>>

RecordCause(c) ==
    /\ caller[c].at = "taken"
    /\ cause' = caller[c].why
    /\ Step(c, "recorded")
    /\ UNCHANGED <<session, row, token, prompt>>

FireToken(c) ==
    /\ caller[c].at = "recorded"
    /\ prompt' = FireOf(prompt, caller[c].victim, caller[c].why)
    /\ caller' = [caller EXCEPT ![c] = [IdleCaller EXCEPT !.at = "dropping"]]
    /\ UNCHANGED <<session, row, token, cause>>

DropSession(c) ==
    /\ caller[c].at = "dropping"
    /\ session' = FALSE
    /\ caller' = [caller EXCEPT ![c] = IdleCaller]
    /\ UNCHANGED <<row, token, cause, prompt>>

-----------------------------------------------------------------------------
(* session/new of another session evicts this one if it has no turn; the   *)
(* set of turns under way is read before the sessions are locked.          *)

SnapshotInFlight(c) ==
    /\ caller[c].at = "idle"
    /\ ~TokensLocked
    /\ caller' = [caller EXCEPT ![c].at = "evicting", ![c].flag = (token # NoTurn)]
    /\ UNCHANGED <<session, row, token, cause, prompt>>

EvictSibling(c) ==
    /\ caller[c].at = "evicting"
    /\ session' = (session /\ caller[c].flag)
    /\ caller' = [caller EXCEPT ![c] = IdleCaller]
    /\ UNCHANGED <<row, token, cause, prompt>>

-----------------------------------------------------------------------------
(* session/new of this session, for the first time or to resume it.        *)

(* Without a working directory of its own a request reads the row first,   *)
(* and a killed one is refused.                                            *)
Preload(c) ==
    /\ caller[c].at = "idle"
    /\ \E loaded \in {FALSE} \cup (IF row = "live" THEN {TRUE} ELSE {}) :
         caller' = [caller EXCEPT ![c].at = "inserting", ![c].flag = loaded]
    /\ UNCHANGED <<session, row, token, cause, prompt>>

(* A session that is in the map already is overwritten.                    *)
InsertSession(c) ==
    /\ caller[c].at = "inserting"
    /\ \/ session' = TRUE /\ Step(c, "loading")
       \/ UNCHANGED session /\ caller' = [caller EXCEPT ![c] = IdleCaller]
    /\ UNCHANGED <<row, token, cause, prompt>>

(* A row that was read before is not read again.                           *)
LoadOrCreate(c) ==
    /\ caller[c].at = "loading"
    /\ \/ /\ caller[c].flag \/ row # "killed"
          /\ row' = IF caller[c].flag \/ row # "none" THEN row ELSE "live"
          /\ caller' = [caller EXCEPT ![c] = IdleCaller]
       \/ /\ ~caller[c].flag
          /\ UNCHANGED row
          /\ caller' = [caller EXCEPT ![c].at = "taking", ![c].why = "removed"]
    /\ UNCHANGED <<session, token, cause, prompt>>

-----------------------------------------------------------------------------
PromptStep(p) ==
    \/ Lookup(p) \/ Rehydrate(p) \/ Seed(p) \/ Refuse(p)
    \/ RegisterCancelToken(p) \/ ExecuteTurn(p) \/ TakeCancelCause(p)
    \/ RemoveCancelToken(p) \/ ClearCause(p) \/ Finish(p)

CallerStep(c) ==
    \/ CheckOwner(c) \/ RecordClient(c) \/ FireClient(c)
    \/ CloseSession(c) \/ CheckMode(c) \/ MarkSessionKilled(c)
    \/ TakeToken(c) \/ RecordCause(c) \/ FireToken(c) \/ DropSession(c)
    \/ SnapshotInFlight(c) \/ EvictSibling(c)
    \/ Preload(c) \/ InsertSession(c) \/ LoadOrCreate(c)

Next == (\E p \in Prompts : PromptStep(p)) \/ (\E c \in Callers : CallerStep(c))

Spec == Init /\ [][Next]_vars

-----------------------------------------------------------------------------
TypeOK ==
    /\ session \in BOOLEAN
    /\ row \in {"none", "live", "killed"}
    /\ token \in Prompts \cup {NoTurn}
    /\ cause \in Causes
    /\ prompt \in [Prompts -> [at : PromptStages,
                               fired : Causes \cup {"displaced"},
                               shown : Causes, alone : BOOLEAN]]
    /\ caller \in [Callers -> [at : CallerStages, why : Causes,
                               victim : Prompts \cup {NoTurn}, flag : BOOLEAN]]

(* A running turn can be stopped: its token is registered, or fired, or in *)
(* the hands of a removal that is about to fire it.  A session's token is  *)
(* one entry, though the queue may let two turns overlap.                  *)
LiveTurnCanBeStopped ==
    \A p \in Prompts :
        prompt[p].at = "running" /\ prompt[p].fired = "none" =>
            \/ token = p
            \/ \E c \in Callers : /\ caller[c].at \in {"taken", "recorded"}
                                  /\ caller[c].victim = p

(* A registered token belongs to a turn under way.  One left behind would  *)
(* keep its session from being evicted and answer cancels for no turn.     *)
TokenHasItsTurn ==
    token # NoTurn => prompt[token].at \in {"running", "ended", "drained"}

(* The verdict of a turn that a close or a kill stopped names a cause, if  *)
(* no other turn of the session ran beside it: neither the previous turn's *)
(* clean-up nor a cancel in between erases it.                             *)
RemovalIsAttributed ==
    \A p \in Prompts :
        /\ prompt[p].at \in {"drained", "clearing", "finishing"}
        /\ prompt[p].fired \in {"removed", "kill"}
        /\ prompt[p].alone
        => prompt[p].shown # "none"

(* When a close or a kill goes on to drop the session every turn that is   *)
(* running has been told to stop.                                          *)
RemovalStopsTheTurns ==
    [][\A c \in Callers :
         caller[c].at # "dropping" /\ caller'[c].at = "dropping" =>
             \A p \in Prompts : prompt'[p].at = "running" => prompt'[p].fired # "none"]_vars

(* Does not hold, and stands here for the record.  rpc/session.rs says of  *)
(* every cancel that the verdict of a cancelled turn names its cause; the  *)
(* clean-up of another turn can erase it, also without Overlap.            *)
CancelIsAttributed ==
    \A p \in Prompts :
        prompt[p].at \in {"drained", "clearing", "finishing"} /\ prompt[p].fired # "none"
            => prompt[p].shown # "none"

(* Does not hold either: a session that was killed is not in memory once   *)
(* the requests that were under way are over, as the tests of session/kill *)
(* have it.  A prompt that read the row before the kill restores it after. *)
KilledSessionIsGone ==
    row = "killed" /\ (\A p \in Prompts : prompt[p].at = "idle")
                   /\ (\A c \in Callers : caller[c].at = "idle") => ~session
=============================================================================
