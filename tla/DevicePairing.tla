---------------------------- MODULE DevicePairing ----------------------------
(***************************************************************************)
(* Pairing a device with the gateway: the one-time code and the tokens in  *)
(* memory (zeroclaw-config, pairing.rs), the device registry and the       *)
(* requests that pair, revoke and rotate (zeroclaw-gateway, api_pairing.rs *)
(* and lib.rs), and the list of tokens in config.toml, the only one that   *)
(* survives a restart.                                                     *)
(*                                                                         *)
(* A request takes its steps one after the other, in between other         *)
(* requests take theirs.  The counters that slow down wrong codes and the  *)
(* display data of a device are left out.                                  *)
(***************************************************************************)
EXTENDS Naturals, FiniteSets

CONSTANTS
    Requests,    \* requests in flight at a time
    Tokens,      \* bearer tokens
    Overlaps,    \* whether requests may overlap: which cases to look at
    Faults,      \* what may fail
    MaxCodes     \* bound: pairing codes issued

ASSUME PairingConstants ==
    /\ Overlaps \subseteq BOOLEAN
    /\ Faults \subseteq {"register", "registry", "save", "sync", "restart"}
    /\ MaxCodes \in Nat

VARIABLES
    overlap,  \* which case this is
    code,     \* the pending pairing code, 0 for none
    issued,   \* codes issued so far
    tokens,   \* PairingGuard::paired_tokens
    devices,  \* rows of the device registry
    disk,     \* gateway.paired_tokens in config.toml
    pc,       \* what each request does next
    job,      \* what each request is for: its operation and its tokens
    snap,     \* the tokens each request is about to write
    minted,   \* ghost: the tokens each code has been exchanged for
    paired,   \* ghost: tokens whose pairing was reported as persisted
    revoking, \* ghost: tokens somebody has begun to revoke
    revoked,  \* ghost: tokens whose revocation was reported as done
    restarts  \* ghost: a restart has happened

vars == <<overlap, code, issued, tokens, devices, disk, pc, job, snap,
          minted, paired, revoking, revoked, restarts>>
reports == <<paired, revoked>>

Codes == 1..MaxCodes
Ops == {"none", "pair", "revoke", "rotate", "rotate_new", "rotate_all"}
NoJob == [op |-> "none", of |-> {}]
Used == UNION {minted[c] : c \in Codes}

(* A gateway that knows no token issues a code as it starts.               *)
Init ==
    /\ overlap \in Overlaps
    /\ tokens = {} /\ devices = {} /\ disk = {}
    /\ code = 1 /\ issued = 1 /\ MaxCodes > 0
    /\ pc = [h \in Requests |-> "idle"]
    /\ job = [h \in Requests |-> NoJob]
    /\ snap = [h \in Requests |-> {}]
    /\ minted = [c \in Codes |-> {}]
    /\ paired = {} /\ revoking = {} /\ revoked = {} /\ restarts = FALSE

Begins(h) == /\ pc[h] = "idle"
             /\ overlap \/ \A other \in Requests : pc[other] = "idle"
Goes(h, to) == pc' = [pc EXCEPT ![h] = to]
For(h, op, of) == job' = [job EXCEPT ![h] = [op |-> op, of |-> of]]
Ends(h) == /\ Goes(h, "idle")
           /\ job' = [job EXCEPT ![h] = NoJob]
           /\ snap' = [snap EXCEPT ![h] = {}]

-----------------------------------------------------------------------------
(* A new code takes the place of the pending one, except after a device's  *)
(* token has been rotated by its owner.                                    *)
Issue == /\ issued < MaxCodes
         /\ code' = issued + 1 /\ issued' = issued + 1
IssueIfVacant == IF code = 0 THEN Issue ELSE UNCHANGED <<code, issued>>

NewCode(h) ==
    /\ Begins(h)
    /\ Issue
    /\ UNCHANGED <<overlap, tokens, devices, disk, pc, job, snap, minted, revoking, reports, restarts>>

(* Mutant: the code stays pending.                                         *)
TryPairKeepingCode(h) ==
    /\ Begins(h) /\ code # 0
    /\ \E t \in Tokens \ Used :
         /\ tokens' = tokens \cup {t}
         /\ minted' = [minted EXCEPT ![code] = @ \cup {t}]
         /\ For(h, "pair", {t})
    /\ Goes(h, "register")
    /\ UNCHANGED <<overlap, code, issued, devices, disk, snap, revoking, reports, restarts>>

(* try_pair with the pending code: one lock is held over the comparison,   *)
(* the new token and the consumption.                                      *)
TryPair(h) ==
    /\ Begins(h) /\ code # 0
    /\ \E t \in Tokens \ Used :
         /\ tokens' = tokens \cup {t}
         /\ minted' = [minted EXCEPT ![code] = @ \cup {t}]
         /\ For(h, "pair", {t})
    /\ code' = 0
    /\ Goes(h, "register")
    /\ UNCHANGED <<overlap, issued, devices, disk, snap, revoking, reports, restarts>>

(* Mutant: the row is forgotten.                                           *)
RegisterNothing(h) ==
    /\ pc[h] = "register"
    /\ Goes(h, "snapshot")
    /\ UNCHANGED <<overlap, code, issued, tokens, devices, disk, job, snap, minted,
                   revoking, reports, restarts>>

(* DeviceRegistry::register                                                *)
Register(h) ==
    /\ pc[h] = "register"
    /\ devices' = devices \cup job[h].of
    /\ Goes(h, "snapshot")
    /\ UNCHANGED <<overlap, code, issued, tokens, disk, job, snap, minted, revoking, reports, restarts>>

RegisterFails(h) ==
    /\ pc[h] = "register" /\ "register" \in Faults
    /\ tokens' = tokens \ job[h].of
    /\ Ends(h)
    /\ UNCHANGED <<overlap, code, issued, devices, disk, minted, revoking, reports, restarts>>

(* revoke_device and rotate_token: the row goes first, then the token.     *)
RevokeDevice(h, t, op) ==
    /\ Begins(h) /\ t \in devices
    /\ devices' = devices \ {t}
    /\ revoking' = revoking \cup {t}
    /\ For(h, op, {t})
    /\ Goes(h, "forget")
    /\ UNCHANGED <<overlap, code, issued, tokens, disk, snap, minted, reports, restarts>>

RevokeTokenHash(h) ==
    /\ pc[h] = "forget"
    /\ tokens' = tokens \ job[h].of
    /\ Goes(h, "snapshot")
    /\ UNCHANGED <<overlap, code, issued, devices, disk, job, snap, minted, revoking, reports, restarts>>

(* rotate=all: the tokens go first, then all rows.                         *)
RevokeAllTokens(h) ==
    /\ Begins(h)
    /\ For(h, "rotate_all", tokens)
    /\ revoking' = revoking \cup tokens
    /\ tokens' = {}
    /\ Goes(h, "clear")
    /\ UNCHANGED <<overlap, code, issued, devices, disk, snap, minted, reports, restarts>>

ClearRegistry(h) ==
    /\ pc[h] = "clear"
    /\ devices' = {}
    /\ Goes(h, "snapshot")
    /\ UNCHANGED <<overlap, code, issued, tokens, disk, job, snap, minted, revoking, reports, restarts>>

ClearFails(h) ==
    /\ pc[h] = "clear" /\ "registry" \in Faults
    /\ Ends(h)
    /\ UNCHANGED <<overlap, code, issued, tokens, devices, disk, minted, revoking, reports, restarts>>

-----------------------------------------------------------------------------
(* persist_pairing_tokens writes the tokens it has read, whatever happens  *)
(* to them meanwhile.                                                      *)
Snapshot(h) ==
    /\ pc[h] = "snapshot"
    /\ snap' = [snap EXCEPT ![h] = tokens]
    /\ Goes(h, "save")
    /\ UNCHANGED <<overlap, code, issued, tokens, devices, disk, job, minted, revoking, reports, restarts>>

(* Mutant: the outcome is reported before the file is written.             *)
SaveReportingEarly(h) ==
    /\ pc[h] = "save"
    /\ UNCHANGED disk
    /\ IF job[h].op = "pair"
       THEN paired' = paired \cup job[h].of /\ UNCHANGED revoked
       ELSE revoked' = revoked \cup job[h].of /\ UNCHANGED paired
    /\ UNCHANGED <<code, issued>>
    /\ Ends(h)
    /\ UNCHANGED <<overlap, tokens, devices, minted, revoking, restarts>>

Save(h) ==
    /\ pc[h] = "save"
    /\ disk' = snap[h]
    /\ IF job[h].op = "pair"
       THEN paired' = paired \cup job[h].of /\ UNCHANGED revoked
       ELSE revoked' = revoked \cup job[h].of /\ UNCHANGED paired
    /\ CASE job[h].op = "rotate" -> IssueIfVacant
         [] job[h].op \in {"rotate_new", "rotate_all"} -> Issue
         [] OTHER -> UNCHANGED <<code, issued>>
    /\ Ends(h)
    /\ UNCHANGED <<overlap, tokens, devices, minted, revoking, restarts>>

(* Mutant: a failed pairing puts all other tokens back to what was read.   *)
SaveFailsRestoring(h) ==
    /\ pc[h] = "save"
    /\ \/ "save" \in Faults /\ UNCHANGED disk
       \/ "sync" \in Faults /\ disk' = snap[h]
    /\ tokens' = IF job[h].op = "pair" THEN snap[h] \ job[h].of ELSE tokens
    /\ Ends(h)
    /\ UNCHANGED <<overlap, code, issued, devices, minted, revoking, reports, restarts>>

(* The file is not replaced, or it is and its directory cannot be synced.  *)
(* A pairing gives its token up, but not the device's row; a revocation    *)
(* reports the failure.                                                    *)
SaveFails(h) ==
    /\ pc[h] = "save"
    /\ \/ "save" \in Faults /\ UNCHANGED disk
       \/ "sync" \in Faults /\ disk' = snap[h]
    /\ tokens' = IF job[h].op = "pair" THEN tokens \ job[h].of ELSE tokens
    /\ Ends(h)
    /\ UNCHANGED <<overlap, code, issued, devices, minted, revoking, reports, restarts>>

(* The gateway starts from config.toml; tokens that have no row get one.   *)
Restart ==
    /\ "restart" \in Faults
    /\ pc' = [h \in Requests |-> "idle"]
    /\ job' = [h \in Requests |-> NoJob]
    /\ snap' = [h \in Requests |-> {}]
    /\ tokens' = disk
    /\ devices' = devices \cup disk
    /\ IF disk = {} THEN Issue ELSE code' = 0 /\ UNCHANGED issued
    /\ restarts' = TRUE
    /\ UNCHANGED <<overlap, disk, minted, revoking, reports>>

Next ==
    \/ \E h \in Requests :
         \/ NewCode(h) \/ TryPair(h) \/ Register(h) \/ RegisterFails(h)
         \/ \E t \in Tokens, op \in {"revoke", "rotate", "rotate_new"} : RevokeDevice(h, t, op)
         \/ RevokeTokenHash(h) \/ RevokeAllTokens(h) \/ ClearRegistry(h) \/ ClearFails(h)
         \/ Snapshot(h) \/ Save(h) \/ SaveFails(h)
    \/ Restart

Spec == Init /\ [][Next]_vars

-----------------------------------------------------------------------------
TypeOK ==
    /\ overlap \in BOOLEAN /\ restarts \in BOOLEAN
    /\ code \in 0..MaxCodes /\ issued \in Codes
    /\ tokens \subseteq Tokens /\ devices \subseteq Tokens /\ disk \subseteq Tokens
    /\ pc \in [Requests -> {"idle", "register", "forget", "clear", "snapshot", "save"}]
    /\ job \in [Requests -> [op : Ops, of : SUBSET Tokens]]
    /\ snap \in [Requests -> SUBSET Tokens]
    /\ minted \in [Codes -> SUBSET Tokens]
    /\ paired \subseteq Tokens /\ revoking \subseteq Tokens /\ revoked \subseteq Tokens

(* A pairing code is good for one device, however many requests present    *)
(* it, and whatever is issued meanwhile.                                   *)
CodeUsedOnce == \A c \in Codes : Cardinality(minted[c]) <= 1

(* Until a restart, a device whose pairing was confirmed stays paired      *)
(* unless somebody revokes it, and a token that was revoked stays out: no  *)
(* rollback of another request undoes either.                              *)
DecisionsStandInMemory ==
    ~restarts => /\ paired \ revoking \subseteq tokens
                 /\ revoked \cap tokens = {}

(* What was confirmed survives restarts: a paired device is on disk, a     *)
(* revoked one is not, and neither a failed pairing nor a failed save of   *)
(* another request changes that, as long as requests do not overlap.       *)
DecisionsSurvive ==
    ~overlap => /\ paired \ revoking \subseteq disk \cap tokens
                /\ revoked \cap (disk \cup tokens) = {}

(* Every token that is accepted can be seen and revoked in the registry,   *)
(* apart from one that a request in flight is dealing with.                *)
TokensAreManaged ==
    ~overlap => tokens \subseteq devices \cup UNION {job[h].of : h \in Requests}

(* Does not hold when requests overlap: a revocation that was answered is  *)
(* not undone by a restart.  The save of another request may write an      *)
(* older snapshot of the tokens over it.                                   *)
RevokedStaysRevoked == revoked \cap disk = {}
=============================================================================
