-------------------------- MODULE DevicePairingProof --------------------------
(***************************************************************************)
(* Proofs about DevicePairing, for any number of requests, tokens and      *)
(* codes, and any choice of faults.                                        *)
(*                                                                         *)
(* A bearer token is fresh when it is minted, so what a request deals with *)
(* is its own: no rollback touches a token of another request.  What is on *)
(* disk follows only if requests do not overlap, for then the tokens that  *)
(* a request is about to write are those in memory.                        *)
(***************************************************************************)
EXTENDS DevicePairing, FiniteSetTheorems, TLAPS

(* Codes are issued in order, and one that is pending is still unused.     *)
CodesFit ==
    /\ code <= issued
    /\ \A c \in Codes : c = code \/ issued < c => minted[c] = {}
    /\ \A c \in Codes : \A s, t \in minted[c] : s = t

AllUsed ==
    /\ tokens \subseteq Used /\ devices \subseteq Used /\ disk \subseteq Used
    /\ paired \subseteq Used /\ revoked \subseteq Used
    /\ \A h \in Requests : job[h].of \subseteq Used /\ snap[h] \subseteq Used

(* What a request is for: a pairing has its token in memory, unless        *)
(* somebody revokes it, and nobody has been told of it; a revocation has   *)
(* taken its tokens out for good.                                          *)
JobIsOwn == \A h \in Requests :
    /\ pc[h] = "idle" => job[h].op = "none" /\ job[h].of = {}
    /\ pc[h] = "register" => job[h].op = "pair"
    /\ pc[h] \in {"forget", "clear"} => job[h].op # "pair"
    /\ job[h].op = "pair" => /\ job[h].of \subseteq tokens \cup revoking
                             /\ job[h].of \cap paired = {}
    /\ job[h].op # "pair" => job[h].of \subseteq revoking
    /\ job[h].op # "pair" /\ pc[h] \in {"clear", "snapshot", "save"} => job[h].of \cap tokens = {}

(* No two pairings have a token in common.                                 *)
PairingsApart == \A g, h \in Requests :
    g # h /\ job[g].op = "pair" /\ job[h].op = "pair" => job[g].of \cap job[h].of = {}

(* Requests that do not overlap.                                           *)
OneAtATime == ~overlap =>
    \A g, h \in Requests : pc[g] # "idle" /\ pc[h] # "idle" => g = h
Serial == ~overlap => \A h \in Requests :
    /\ pc[h] = "clear" => tokens = {}
    /\ job[h].op = "pair" /\ pc[h] \in {"snapshot", "save"} => job[h].of \subseteq devices
    /\ pc[h] = "save" => /\ paired \ revoking \subseteq snap[h]
                         /\ revoked \cap snap[h] = {}
                         /\ job[h].op = "pair" => job[h].of \subseteq snap[h] \cup revoking
                         /\ job[h].op # "pair" => job[h].of \cap snap[h] = {}

(* TokensAreManaged, token by token.                                       *)
Managed == ~overlap => \A t \in tokens : t \in devices \/ \E h \in Requests : t \in job[h].of

Own == AllUsed /\ PairingsApart /\ JobIsOwn /\ DecisionsStandInMemory
Kept == OneAtATime /\ Serial /\ DecisionsSurvive /\ Managed
IInv == TypeOK /\ CodesFit /\ Own /\ Kept

Stages == {"idle", "register", "forget", "clear", "snapshot", "save"}

-----------------------------------------------------------------------------
(* The effect of a step on its request, field by field.                    *)
RequestIs(h, at, op, of, sn) ==
    /\ pc'[h] = at /\ job'[h].op = op /\ job'[h].of = of /\ snap'[h] = sn
    /\ \A g \in Requests \ {h} : pc'[g] = pc[g] /\ job'[g] = job[g] /\ snap'[g] = snap[g]
    /\ pc' \in [Requests -> Stages]
    /\ job' \in [Requests -> [op : Ops, of : SUBSET Tokens]]
    /\ snap' \in [Requests -> SUBSET Tokens]

LEMMA GoesEffect ==
    ASSUME TypeOK, NEW h \in Requests, NEW at \in Stages, Goes(h, at), UNCHANGED <<job, snap>>
    PROVE  RequestIs(h, at, job[h].op, job[h].of, snap[h])
BY DEF TypeOK, Goes, RequestIs, Stages

LEMMA ForEffect ==
    ASSUME TypeOK, NEW h \in Requests, NEW at \in Stages, NEW op \in Ops, NEW of \in SUBSET Tokens,
           Goes(h, at), For(h, op, of), UNCHANGED snap
    PROVE  RequestIs(h, at, op, of, snap[h])
BY DEF TypeOK, Goes, For, RequestIs, Stages

LEMMA EndsEffect ==
    ASSUME TypeOK, NEW h \in Requests, Ends(h)
    PROVE  RequestIs(h, "idle", "none", {}, {})
BY DEF TypeOK, Goes, Ends, NoJob, RequestIs, Stages, Ops

(* The steps of a request.                                                 *)
Pairs(h) == \E t \in Tokens \ Used, c \in Codes :
    /\ Begins(h) /\ c = code /\ code' = 0 /\ issued' = issued
    /\ minted' = [minted EXCEPT ![c] = @ \cup {t}]
    /\ tokens' = tokens \cup {t}
    /\ RequestIs(h, "register", "pair", {t}, snap[h])
    /\ UNCHANGED <<overlap, devices, disk, revoking, reports, restarts>>

(* Issuing a code is no business of the other variables.                   *)
CodeMoves == \/ UNCHANGED <<code, issued>>
             \/ issued < MaxCodes /\ code' = issued + 1 /\ issued' = issued + 1
Same == CodeMoves /\ UNCHANGED <<overlap, minted, restarts>>

OnlyCode == Same /\ UNCHANGED <<tokens, devices, disk, pc, job, snap, revoking, reports>>

Registers(h) ==
    /\ Same /\ UNCHANGED <<tokens, disk, revoking, reports>>
    /\ pc[h] = "register" /\ devices' = devices \cup job[h].of
    /\ RequestIs(h, "snapshot", job[h].op, job[h].of, snap[h])

GivesUp(h) ==
    /\ Same /\ UNCHANGED <<devices, revoking, reports>>
    /\ pc[h] # "forget"
    /\ disk' = disk \/ (pc[h] = "save" /\ disk' = snap[h])
    /\ tokens' = IF job[h].op = "pair" THEN tokens \ job[h].of ELSE tokens
    /\ pc[h] # "snapshot" /\ pc[h] # "idle"
    /\ RequestIs(h, "idle", "none", {}, {})

DropsRow(h) == \E t \in Tokens, op \in Ops \ {"pair"} :
    /\ Same /\ UNCHANGED <<tokens, disk, reports>>
    /\ Begins(h) /\ t \in devices
    /\ devices' = devices \ {t} /\ revoking' = revoking \cup {t}
    /\ RequestIs(h, "forget", op, {t}, snap[h])

DropsToken(h) ==
    /\ Same /\ UNCHANGED <<devices, disk, revoking, reports>>
    /\ pc[h] = "forget" /\ tokens' = tokens \ job[h].of
    /\ RequestIs(h, "snapshot", job[h].op, job[h].of, snap[h])

DropsAll(h) ==
    /\ Same /\ UNCHANGED <<devices, disk, reports>>
    /\ Begins(h) /\ tokens' = {} /\ revoking' = revoking \cup tokens
    /\ RequestIs(h, "clear", "rotate_all", tokens, snap[h])

DropsRows(h) ==
    /\ Same /\ UNCHANGED <<tokens, disk, revoking, reports>>
    /\ pc[h] = "clear" /\ devices' = {}
    /\ RequestIs(h, "snapshot", job[h].op, job[h].of, snap[h])

Reads(h) ==
    /\ Same /\ UNCHANGED <<tokens, devices, disk, revoking, reports>>
    /\ pc[h] = "snapshot"
    /\ RequestIs(h, "save", job[h].op, job[h].of, tokens)

Saves(h) ==
    /\ Same /\ UNCHANGED <<tokens, devices, revoking>>
    /\ pc[h] = "save" /\ disk' = snap[h]
    /\ paired' = IF job[h].op = "pair" THEN paired \cup job[h].of ELSE paired
    /\ revoked' = IF job[h].op = "pair" THEN revoked ELSE revoked \cup job[h].of
    /\ RequestIs(h, "idle", "none", {}, {})

Restarts ==
    /\ CodeMoves \/ (code' = 0 /\ issued' = issued)
    /\ UNCHANGED <<overlap, disk, minted, revoking, reports>>
    /\ tokens' = disk /\ devices' = devices \cup disk /\ restarts' = TRUE
    /\ pc' = [h \in Requests |-> "idle"]
    /\ \A h \in Requests : job'[h].op = "none" /\ job'[h].of = {} /\ snap'[h] = {}
    /\ job' \in [Requests -> [op : Ops, of : SUBSET Tokens]]
    /\ snap' \in [Requests -> SUBSET Tokens]

RequestKind(h) ==
    \/ Pairs(h) \/ OnlyCode \/ Registers(h) \/ GivesUp(h) \/ DropsRow(h) \/ DropsToken(h)
    \/ DropsAll(h) \/ DropsRows(h) \/ Reads(h) \/ Saves(h)

LEMMA Kinds ==
    ASSUME IInv, Next
    PROVE  (\E h \in Requests : RequestKind(h)) \/ Restarts
<1>0. TypeOK /\ JobIsOwn
  BY DEF IInv, Own
<1>1. ASSUME NEW h \in Requests, NewCode(h)
      PROVE  OnlyCode
  BY <1>1 DEF NewCode, Issue, OnlyCode, Same, CodeMoves
<1>2. ASSUME NEW h \in Requests, TryPair(h)
      PROVE  Pairs(h)
  <2>1. PICK t \in Tokens \ Used :
          /\ tokens' = tokens \cup {t}
          /\ minted' = [minted EXCEPT ![code] = @ \cup {t}]
          /\ For(h, "pair", {t})
    BY <1>2 DEF TryPair
  <2>2. RequestIs(h, "register", "pair", {t}, snap[h])
    BY <1>0, <1>2, <2>1, ForEffect DEF TryPair, Stages, Ops
  <2>3. code \in Codes
    BY <1>0, <1>2 DEF TypeOK, TryPair, Codes
  <2>. QED
    BY <1>2, <2>1, <2>2, <2>3 DEF TryPair, Pairs, reports
<1>3. ASSUME NEW h \in Requests, Register(h)
      PROVE  Registers(h)
  BY <1>0, <1>3, GoesEffect DEF Register, Registers, Same, CodeMoves, Stages
<1>4. ASSUME NEW h \in Requests, RegisterFails(h) \/ ClearFails(h) \/ SaveFails(h)
      PROVE  GivesUp(h)
  <2>1. RequestIs(h, "idle", "none", {}, {})
    BY <1>0, <1>4, EndsEffect DEF RegisterFails, ClearFails, SaveFails
  <2>2. CASE RegisterFails(h)
    BY <1>0, <2>1, <2>2 DEF JobIsOwn, RegisterFails, GivesUp, Same, CodeMoves
  <2>3. CASE ClearFails(h)
    BY <1>0, <2>1, <2>3 DEF JobIsOwn, ClearFails, GivesUp, Same, CodeMoves, reports
  <2>4. CASE SaveFails(h)
    BY <2>1, <2>4 DEF SaveFails, GivesUp, Same, CodeMoves
  <2>. QED
    BY <1>4, <2>2, <2>3, <2>4
<1>5. ASSUME NEW h \in Requests, NEW t \in Tokens, NEW op \in {"revoke", "rotate", "rotate_new"},
             RevokeDevice(h, t, op)
      PROVE  DropsRow(h)
  <2>1. op \in Ops \ {"pair"} /\ {t} \in SUBSET Tokens
    BY DEF Ops
  <2>2. RequestIs(h, "forget", op, {t}, snap[h])
    BY <1>0, <1>5, <2>1, ForEffect DEF RevokeDevice, Stages
  <2>. QED
    BY <1>5, <2>1, <2>2 DEF RevokeDevice, DropsRow, Same, CodeMoves
<1>6. ASSUME NEW h \in Requests, RevokeTokenHash(h)
      PROVE  DropsToken(h)
  BY <1>0, <1>6, GoesEffect DEF RevokeTokenHash, DropsToken, Same, CodeMoves, Stages
<1>7. ASSUME NEW h \in Requests, RevokeAllTokens(h)
      PROVE  DropsAll(h)
  <2>1. tokens \in SUBSET Tokens
    BY <1>0 DEF TypeOK
  <2>. QED
    BY <1>0, <1>7, <2>1, ForEffect DEF RevokeAllTokens, DropsAll, Same, CodeMoves, Stages, Ops
<1>8. ASSUME NEW h \in Requests, ClearRegistry(h)
      PROVE  DropsRows(h)
  BY <1>0, <1>8, GoesEffect DEF ClearRegistry, DropsRows, Same, CodeMoves, Stages
<1>9. ASSUME NEW h \in Requests, Snapshot(h)
      PROVE  Reads(h)
  BY <1>0, <1>9 DEF TypeOK, Snapshot, Goes, Reads, RequestIs, Same, CodeMoves, Stages
<1>10. ASSUME NEW h \in Requests, Save(h)
       PROVE  Saves(h)
  <2>1. Issue \/ IssueIfVacant \/ UNCHANGED <<code, issued>>
    <3>1. CASE job[h].op = "rotate"
      BY <1>10, <3>1 DEF Save
    <3>2. CASE job[h].op \in {"rotate_new", "rotate_all"}
      BY <1>10, <3>2 DEF Save
    <3>3. CASE job[h].op \notin {"rotate", "rotate_new", "rotate_all"}
      BY <1>10, <3>3 DEF Save
    <3>. QED
      BY <3>1, <3>2, <3>3
  <2>2. CodeMoves
    BY <2>1 DEF IssueIfVacant, Issue, CodeMoves
  <2>. QED
    BY <2>2, <1>0, <1>10, <2>1, EndsEffect DEF Save, Saves, Same
<1>11. ASSUME Restart
       PROVE  Restarts
  <2>1. CodeMoves \/ (code' = 0 /\ issued' = issued)
    BY <1>11 DEF Restart, Issue, CodeMoves
  <2>. QED
    BY <1>0, <1>11, <2>1 DEF TypeOK, Restart, Restarts, NoJob, Ops
<1>. QED
  BY <1>1, <1>2, <1>3, <1>4, <1>5, <1>6, <1>7, <1>8, <1>9, <1>10, <1>11 DEF Next, RequestKind

-----------------------------------------------------------------------------
(* The steps that touch the codes.                                         *)
LEMMA CodesKept ==
    ASSUME IInv, Next
    PROVE  /\ code' \in 0..MaxCodes /\ issued' \in Codes
           /\ minted' \in [Codes -> SUBSET Tokens]
           /\ CodesFit' /\ Used \subseteq Used'
           /\ overlap' = overlap
<1>0. /\ code \in 0..MaxCodes /\ issued \in Codes /\ MaxCodes \in Nat
      /\ minted \in [Codes -> SUBSET Tokens]
      /\ CodesFit
  BY PairingConstants DEF IInv, TypeOK, PairingConstants
<1>1. CASE minted' = minted /\ overlap' = overlap /\ (CodeMoves \/ (code' = 0 /\ issued' = issued))
  <2>1. code' \in 0..MaxCodes /\ issued' \in Codes
    BY <1>0, <1>1 DEF CodeMoves, Codes
  <2>2. CodesFit'
    BY <1>0, <1>1 DEF CodeMoves, CodesFit, Codes
  <2>3. Used' = Used
    BY <1>1 DEF Used
  <2>. QED
    BY <1>0, <1>1, <2>1, <2>2, <2>3
<1>2. ASSUME NEW h \in Requests, Pairs(h)
      PROVE  /\ code' \in 0..MaxCodes /\ issued' \in Codes
             /\ minted' \in [Codes -> SUBSET Tokens]
             /\ CodesFit' /\ Used \subseteq Used'
             /\ overlap' = overlap
  <2>1. PICK t \in Tokens \ Used, c \in Codes :
          /\ c = code /\ code' = 0 /\ issued' = issued /\ overlap' = overlap
          /\ minted' = [minted EXCEPT ![c] = @ \cup {t}]
    BY <1>2 DEF Pairs
  <2>2. minted' \in [Codes -> SUBSET Tokens]
    BY <1>0, <2>1
  <2>3. \A d \in Codes : minted'[d] = IF d = c THEN minted[c] \cup {t} ELSE minted[d]
    BY <1>0, <2>1
  <2>4. minted[c] = {}
    BY <1>0, <2>1 DEF CodesFit
  <2>5. CodesFit'
    <3>1. code' <= issued' /\ 0 \notin Codes /\ c <= issued
      BY <1>0, <2>1 DEF CodesFit, Codes
    <3>2. \A d \in Codes : d = code' \/ issued' < d => minted'[d] = {}
      BY <1>0, <2>1, <2>3, <3>1 DEF CodesFit, Codes
    <3>3. \A d \in Codes : \A x, y \in minted'[d] : x = y
      BY <1>0, <2>3, <2>4 DEF CodesFit
    <3>. QED
      BY <3>1, <3>2, <3>3 DEF CodesFit
  <2>6. Used \subseteq Used'
    BY <2>3 DEF Used
  <2>. QED
    BY <1>0, <2>1, <2>2, <2>5, <2>6
<1>3. CASE OnlyCode \/ Restarts
  BY <1>0, <1>1, <1>3 DEF OnlyCode, Restarts, Same
<1>4. ASSUME NEW h \in Requests, RequestKind(h)
      PROVE  Pairs(h) \/ (minted' = minted /\ overlap' = overlap /\ CodeMoves)
  BY <1>4 DEF RequestKind, OnlyCode, Registers, GivesUp, DropsRow, DropsToken, DropsAll,
              DropsRows, Reads, Saves, Same
<1>. QED
  BY <1>1, <1>2, <1>3, <1>4, Kinds

(* Types.                                                                  *)
LEMMA TypeKept ==
    ASSUME IInv, Next
    PROVE  TypeOK'
<1>0. /\ code' \in 0..MaxCodes /\ issued' \in Codes
      /\ minted' \in [Codes -> SUBSET Tokens] /\ TypeOK
  BY CodesKept DEF IInv
<1>1. CASE OnlyCode
  BY <1>0, <1>1 DEF OnlyCode, Same, reports, Stages, TypeOK
<1>2. CASE Restarts
  <2>1. TypeOK'
    BY <1>0, <1>2 DEF Restarts, reports, TypeOK, Stages
  <2>. QED
    BY <2>1
<1>3. ASSUME NEW h \in Requests, Pairs(h)
      PROVE  TypeOK'
  <2>1. TypeOK'
    BY <1>0, <1>3 DEF Pairs, Same, reports, RequestIs, Begins, TypeOK, Stages
  <2>. QED
    BY <2>1
<1>4. ASSUME NEW h \in Requests, Registers(h)
      PROVE  TypeOK'
  <2>1. TypeOK'
    BY <1>0, <1>4 DEF Registers, Same, reports, RequestIs, Begins, TypeOK, Stages
  <2>. QED
    BY <2>1
<1>5. ASSUME NEW h \in Requests, GivesUp(h)
      PROVE  TypeOK'
  <2>1. TypeOK'
    BY <1>0, <1>5 DEF GivesUp, Same, reports, RequestIs, Begins, TypeOK, Stages
  <2>. QED
    BY <2>1
<1>6. ASSUME NEW h \in Requests, DropsRow(h)
      PROVE  TypeOK'
  <2>1. TypeOK'
    BY <1>0, <1>6 DEF DropsRow, Same, reports, RequestIs, Begins, TypeOK, Stages
  <2>. QED
    BY <2>1
<1>7. ASSUME NEW h \in Requests, DropsToken(h)
      PROVE  TypeOK'
  <2>1. TypeOK'
    BY <1>0, <1>7 DEF DropsToken, Same, reports, RequestIs, Begins, TypeOK, Stages
  <2>. QED
    BY <2>1
<1>8. ASSUME NEW h \in Requests, DropsAll(h)
      PROVE  TypeOK'
  <2>1. TypeOK'
    BY <1>0, <1>8 DEF DropsAll, Same, reports, RequestIs, Begins, TypeOK, Stages
  <2>. QED
    BY <2>1
<1>9. ASSUME NEW h \in Requests, DropsRows(h)
      PROVE  TypeOK'
  <2>1. TypeOK'
    BY <1>0, <1>9 DEF DropsRows, Same, reports, RequestIs, Begins, TypeOK, Stages
  <2>. QED
    BY <2>1
<1>10. ASSUME NEW h \in Requests, Reads(h)
      PROVE  TypeOK'
  <2>1. TypeOK'
    BY <1>0, <1>10 DEF Reads, Same, reports, RequestIs, Begins, TypeOK, Stages
  <2>. QED
    BY <2>1
<1>11. ASSUME NEW h \in Requests, Saves(h)
      PROVE  TypeOK'
  <2>1. TypeOK'
    BY <1>0, <1>11 DEF Saves, Same, reports, RequestIs, Begins, TypeOK, Stages
  <2>. QED
    BY <2>1
<1>. QED
  BY <1>1, <1>2, <1>3, <1>4, <1>5, <1>6, <1>7, <1>8, <1>9, <1>10, <1>11, Kinds DEF RequestKind

(* What is a request's own, whether or not requests overlap.               *)
LEMMA OwnKept ==
    ASSUME IInv, Next
    PROVE  AllUsed' /\ PairingsApart' /\ JobIsOwn' /\ DecisionsStandInMemory'
<1>0. TypeOK /\ AllUsed /\ PairingsApart /\ JobIsOwn /\ DecisionsStandInMemory /\ Used \subseteq Used'
  BY CodesKept DEF IInv, Own
<1>1. CASE OnlyCode
  BY <1>0, <1>1 DEF OnlyCode, Same, reports, AllUsed, PairingsApart, DecisionsStandInMemory, JobIsOwn, TypeOK
<1>2. CASE Restarts
  <2>1. AllUsed'
    BY <1>0, <1>2 DEF Restarts, reports, AllUsed, TypeOK
  <2>4. PairingsApart'
    <3>1. \A g \in Requests : job'[g].op = "pair" => job[g].op = "pair" /\ job'[g].of = job[g].of
      BY <1>2 DEF Restarts, reports
    <3>. QED
      BY <1>0, <3>1 DEF PairingsApart
  <2>2. JobIsOwn'
    BY <1>0, <1>2 DEF Restarts, reports, JobIsOwn, PairingsApart, AllUsed, TypeOK
  <2>3. DecisionsStandInMemory'
    BY <1>0, <1>2 DEF Restarts, reports, DecisionsStandInMemory, JobIsOwn, AllUsed, TypeOK
  <2>. QED
    BY <2>1, <2>2, <2>3, <2>4
<1>3. ASSUME NEW h \in Requests, Pairs(h)
      PROVE  AllUsed' /\ PairingsApart' /\ JobIsOwn' /\ DecisionsStandInMemory'
  <2>1. AllUsed'
    <3>1. PICK t \in Tokens \ Used, c \in Codes :
            /\ minted' = [minted EXCEPT ![c] = @ \cup {t}]
            /\ tokens' = tokens \cup {t}
            /\ RequestIs(h, "register", "pair", {t}, snap[h])
      BY <1>3 DEF Pairs
    <3>2. t \in Used'
      BY <1>0, <3>1 DEF TypeOK, Used
    <3>3. \A g \in Requests : job'[g].of \subseteq Used' /\ snap'[g] \subseteq Used'
      BY <1>0, <3>1, <3>2 DEF RequestIs, AllUsed
    <3>. QED
      BY <1>0, <1>3, <3>1, <3>2, <3>3 DEF Pairs, AllUsed, reports
  <2>4. PairingsApart'
    BY <1>0, <1>3 DEF Pairs, Same, reports, RequestIs, Begins, PairingsApart, AllUsed, TypeOK
  <2>2. JobIsOwn'
    BY <1>0, <1>3 DEF Pairs, Same, reports, RequestIs, Begins, JobIsOwn, PairingsApart, AllUsed, TypeOK
  <2>3. DecisionsStandInMemory'
    BY <1>0, <1>3 DEF Pairs, Same, reports, RequestIs, Begins, DecisionsStandInMemory, JobIsOwn, AllUsed, TypeOK
  <2>. QED
    BY <2>1, <2>2, <2>3, <2>4
<1>4. ASSUME NEW h \in Requests, Registers(h)
      PROVE  AllUsed' /\ PairingsApart' /\ JobIsOwn' /\ DecisionsStandInMemory'
  <2>1. AllUsed'
    BY <1>0, <1>4 DEF Registers, Same, reports, RequestIs, Begins, AllUsed, TypeOK
  <2>4. PairingsApart'
    <3>1. \A g \in Requests : job'[g].op = "pair" => job[g].op = "pair" /\ job'[g].of = job[g].of
      BY <1>4 DEF Registers, Same, reports, RequestIs, Begins
    <3>. QED
      BY <1>0, <3>1 DEF PairingsApart
  <2>2. JobIsOwn'
    BY <1>0, <1>4 DEF Registers, Same, reports, RequestIs, Begins, JobIsOwn, PairingsApart, AllUsed, TypeOK
  <2>3. DecisionsStandInMemory'
    BY <1>0, <1>4 DEF Registers, Same, reports, RequestIs, Begins, DecisionsStandInMemory, JobIsOwn, AllUsed, TypeOK
  <2>. QED
    BY <2>1, <2>2, <2>3, <2>4
<1>5. ASSUME NEW h \in Requests, GivesUp(h)
      PROVE  AllUsed' /\ PairingsApart' /\ JobIsOwn' /\ DecisionsStandInMemory'
  <2>1. AllUsed'
    BY <1>0, <1>5 DEF GivesUp, Same, reports, RequestIs, Begins, AllUsed, TypeOK
  <2>4. PairingsApart'
    <3>1. \A g \in Requests : job'[g].op = "pair" => job[g].op = "pair" /\ job'[g].of = job[g].of
      BY <1>5 DEF GivesUp, Same, reports, RequestIs, Begins
    <3>. QED
      BY <1>0, <3>1 DEF PairingsApart
  <2>2. JobIsOwn'
    BY <1>0, <1>5 DEF GivesUp, Same, reports, RequestIs, Begins, JobIsOwn, PairingsApart, AllUsed, TypeOK
  <2>3. DecisionsStandInMemory'
    BY <1>0, <1>5 DEF GivesUp, Same, reports, RequestIs, Begins, DecisionsStandInMemory, JobIsOwn, AllUsed, TypeOK
  <2>. QED
    BY <2>1, <2>2, <2>3, <2>4
<1>6. ASSUME NEW h \in Requests, DropsRow(h)
      PROVE  AllUsed' /\ PairingsApart' /\ JobIsOwn' /\ DecisionsStandInMemory'
  <2>1. AllUsed'
    BY <1>0, <1>6 DEF DropsRow, Same, reports, RequestIs, Begins, AllUsed, TypeOK
  <2>4. PairingsApart'
    <3>1. \A g \in Requests : job'[g].op = "pair" => job[g].op = "pair" /\ job'[g].of = job[g].of
      BY <1>6 DEF DropsRow, Same, reports, RequestIs, Begins
    <3>. QED
      BY <1>0, <3>1 DEF PairingsApart
  <2>2. JobIsOwn'
    BY <1>0, <1>6 DEF DropsRow, Same, reports, RequestIs, Begins, JobIsOwn, PairingsApart, AllUsed, TypeOK
  <2>3. DecisionsStandInMemory'
    BY <1>0, <1>6 DEF DropsRow, Same, reports, RequestIs, Begins, DecisionsStandInMemory, JobIsOwn, AllUsed, TypeOK
  <2>. QED
    BY <2>1, <2>2, <2>3, <2>4
<1>7. ASSUME NEW h \in Requests, DropsToken(h)
      PROVE  AllUsed' /\ PairingsApart' /\ JobIsOwn' /\ DecisionsStandInMemory'
  <2>1. AllUsed'
    BY <1>0, <1>7 DEF DropsToken, Same, reports, RequestIs, Begins, AllUsed, TypeOK
  <2>4. PairingsApart'
    <3>1. \A g \in Requests : job'[g].op = "pair" => job[g].op = "pair" /\ job'[g].of = job[g].of
      BY <1>7 DEF DropsToken, Same, reports, RequestIs, Begins
    <3>. QED
      BY <1>0, <3>1 DEF PairingsApart
  <2>2. JobIsOwn'
    BY <1>0, <1>7 DEF DropsToken, Same, reports, RequestIs, Begins, JobIsOwn, PairingsApart, AllUsed, TypeOK
  <2>3. DecisionsStandInMemory'
    BY <1>0, <1>7 DEF DropsToken, Same, reports, RequestIs, Begins, DecisionsStandInMemory, JobIsOwn, AllUsed, TypeOK
  <2>. QED
    BY <2>1, <2>2, <2>3, <2>4
<1>8. ASSUME NEW h \in Requests, DropsAll(h)
      PROVE  AllUsed' /\ PairingsApart' /\ JobIsOwn' /\ DecisionsStandInMemory'
  <2>1. AllUsed'
    BY <1>0, <1>8 DEF DropsAll, Same, reports, RequestIs, Begins, AllUsed, TypeOK
  <2>4. PairingsApart'
    <3>1. \A g \in Requests : job'[g].op = "pair" => job[g].op = "pair" /\ job'[g].of = job[g].of
      BY <1>8 DEF DropsAll, Same, reports, RequestIs, Begins
    <3>. QED
      BY <1>0, <3>1 DEF PairingsApart
  <2>2. JobIsOwn'
    BY <1>0, <1>8 DEF DropsAll, Same, reports, RequestIs, Begins, JobIsOwn, PairingsApart, AllUsed, TypeOK
  <2>3. DecisionsStandInMemory'
    BY <1>0, <1>8 DEF DropsAll, Same, reports, RequestIs, Begins, DecisionsStandInMemory, JobIsOwn, AllUsed, TypeOK
  <2>. QED
    BY <2>1, <2>2, <2>3, <2>4
<1>9. ASSUME NEW h \in Requests, DropsRows(h)
      PROVE  AllUsed' /\ PairingsApart' /\ JobIsOwn' /\ DecisionsStandInMemory'
  <2>1. AllUsed'
    BY <1>0, <1>9 DEF DropsRows, Same, reports, RequestIs, Begins, AllUsed, TypeOK
  <2>4. PairingsApart'
    <3>1. \A g \in Requests : job'[g].op = "pair" => job[g].op = "pair" /\ job'[g].of = job[g].of
      BY <1>9 DEF DropsRows, Same, reports, RequestIs, Begins
    <3>. QED
      BY <1>0, <3>1 DEF PairingsApart
  <2>2. JobIsOwn'
    BY <1>0, <1>9 DEF DropsRows, Same, reports, RequestIs, Begins, JobIsOwn, PairingsApart, AllUsed, TypeOK
  <2>3. DecisionsStandInMemory'
    BY <1>0, <1>9 DEF DropsRows, Same, reports, RequestIs, Begins, DecisionsStandInMemory, JobIsOwn, AllUsed, TypeOK
  <2>. QED
    BY <2>1, <2>2, <2>3, <2>4
<1>10. ASSUME NEW h \in Requests, Reads(h)
      PROVE  AllUsed' /\ PairingsApart' /\ JobIsOwn' /\ DecisionsStandInMemory'
  <2>1. AllUsed'
    BY <1>0, <1>10 DEF Reads, Same, reports, RequestIs, Begins, AllUsed, TypeOK
  <2>4. PairingsApart'
    <3>1. \A g \in Requests : job'[g].op = "pair" => job[g].op = "pair" /\ job'[g].of = job[g].of
      BY <1>10 DEF Reads, Same, reports, RequestIs, Begins
    <3>. QED
      BY <1>0, <3>1 DEF PairingsApart
  <2>2. JobIsOwn'
    BY <1>0, <1>10 DEF Reads, Same, reports, RequestIs, Begins, JobIsOwn, PairingsApart, AllUsed, TypeOK
  <2>3. DecisionsStandInMemory'
    BY <1>0, <1>10 DEF Reads, Same, reports, RequestIs, Begins, DecisionsStandInMemory, JobIsOwn, AllUsed, TypeOK
  <2>. QED
    BY <2>1, <2>2, <2>3, <2>4
<1>11. ASSUME NEW h \in Requests, Saves(h)
      PROVE  AllUsed' /\ PairingsApart' /\ JobIsOwn' /\ DecisionsStandInMemory'
  <2>1. AllUsed'
    BY <1>0, <1>11 DEF Saves, Same, reports, RequestIs, Begins, AllUsed, TypeOK
  <2>4. PairingsApart'
    <3>1. \A g \in Requests : job'[g].op = "pair" => job[g].op = "pair" /\ job'[g].of = job[g].of
      BY <1>11 DEF Saves, Same, reports, RequestIs, Begins
    <3>. QED
      BY <1>0, <3>1 DEF PairingsApart
  <2>2. JobIsOwn'
    BY <1>0, <1>11 DEF Saves, Same, reports, RequestIs, Begins, JobIsOwn, PairingsApart, AllUsed, TypeOK
  <2>3. DecisionsStandInMemory'
    BY <1>0, <1>11 DEF Saves, Same, reports, RequestIs, Begins, DecisionsStandInMemory, JobIsOwn, AllUsed, TypeOK
  <2>. QED
    BY <2>1, <2>2, <2>3, <2>4
<1>. QED
  BY <1>1, <1>2, <1>3, <1>4, <1>5, <1>6, <1>7, <1>8, <1>9, <1>10, <1>11, Kinds DEF RequestKind

(* What requests that do not overlap leave behind.                         *)
LEMMA SerialKept ==
    ASSUME IInv, Next
    PROVE  OneAtATime' /\ Serial' /\ DecisionsSurvive' /\ Managed'
<1>0. TypeOK /\ AllUsed /\ JobIsOwn /\ OneAtATime /\ Serial /\ DecisionsSurvive /\ Managed
  BY DEF IInv, Own, Kept
<1>1. CASE OnlyCode
  BY <1>0, <1>1 DEF OnlyCode, Same, reports, OneAtATime, AllUsed, DecisionsSurvive, JobIsOwn, Managed, Serial, TypeOK
<1>2. CASE Restarts
  <2>4. OneAtATime'
    BY <1>0, <1>2 DEF Restarts, reports, OneAtATime
  <2>1. Serial'
    BY <1>0, <1>2 DEF Restarts, reports, OneAtATime, Serial, JobIsOwn, AllUsed, TypeOK, DecisionsSurvive
  <2>2. DecisionsSurvive'
    BY <1>0, <1>2 DEF Restarts, reports, DecisionsSurvive, OneAtATime, Serial, JobIsOwn, AllUsed, TypeOK
  <2>3. Managed'
    BY <1>0, <1>2 DEF Restarts, reports, Managed, OneAtATime, Serial, JobIsOwn, TypeOK
  <2>. QED
    BY <2>1, <2>2, <2>3, <2>4
<1>3. ASSUME NEW h \in Requests, Pairs(h)
      PROVE  OneAtATime' /\ Serial' /\ DecisionsSurvive' /\ Managed'
  <2>4. OneAtATime'
    BY <1>0, <1>3 DEF Pairs, Same, reports, RequestIs, Begins, OneAtATime
  <2>1. Serial'
    BY <1>0, <1>3 DEF Pairs, Same, reports, RequestIs, Begins, OneAtATime, Serial, JobIsOwn, AllUsed, TypeOK, DecisionsSurvive
  <2>2. DecisionsSurvive'
    BY <1>0, <1>3 DEF Pairs, Same, reports, RequestIs, Begins, DecisionsSurvive, OneAtATime, Serial, JobIsOwn, AllUsed, TypeOK
  <2>3. Managed'
    BY <1>0, <1>3 DEF Pairs, Same, reports, RequestIs, Begins, Managed, OneAtATime, Serial, JobIsOwn, TypeOK
  <2>. QED
    BY <2>1, <2>2, <2>3, <2>4
<1>4. ASSUME NEW h \in Requests, Registers(h)
      PROVE  OneAtATime' /\ Serial' /\ DecisionsSurvive' /\ Managed'
  <2>4. OneAtATime'
    BY <1>0, <1>4 DEF Registers, Same, reports, RequestIs, Begins, OneAtATime
  <2>1. Serial'
    BY <1>0, <1>4 DEF Registers, Same, reports, RequestIs, Begins, OneAtATime, Serial, JobIsOwn, AllUsed, TypeOK, DecisionsSurvive
  <2>2. DecisionsSurvive'
    BY <1>0, <1>4 DEF Registers, Same, reports, RequestIs, Begins, DecisionsSurvive, OneAtATime, Serial, JobIsOwn, AllUsed, TypeOK
  <2>3. Managed'
    BY <1>0, <1>4 DEF Registers, Same, reports, RequestIs, Begins, Managed, OneAtATime, Serial, JobIsOwn, TypeOK
  <2>. QED
    BY <2>1, <2>2, <2>3, <2>4
<1>5. ASSUME NEW h \in Requests, GivesUp(h)
      PROVE  OneAtATime' /\ Serial' /\ DecisionsSurvive' /\ Managed'
  <2>4. OneAtATime'
    BY <1>0, <1>5 DEF GivesUp, Same, reports, RequestIs, Begins, OneAtATime
  <2>1. Serial'
    BY <1>0, <1>5 DEF GivesUp, Same, reports, RequestIs, Begins, OneAtATime, Serial, JobIsOwn, AllUsed, TypeOK, DecisionsSurvive
  <2>2. DecisionsSurvive'
    BY <1>0, <1>5 DEF GivesUp, Same, reports, RequestIs, Begins, DecisionsSurvive, OneAtATime, Serial, JobIsOwn, AllUsed, TypeOK
  <2>3. Managed'
    BY <1>0, <1>5 DEF GivesUp, Same, reports, RequestIs, Begins, Managed, OneAtATime, Serial, JobIsOwn, TypeOK
  <2>. QED
    BY <2>1, <2>2, <2>3, <2>4
<1>6. ASSUME NEW h \in Requests, DropsRow(h)
      PROVE  OneAtATime' /\ Serial' /\ DecisionsSurvive' /\ Managed'
  <2>4. OneAtATime'
    BY <1>0, <1>6 DEF DropsRow, Same, reports, RequestIs, Begins, OneAtATime
  <2>1. Serial'
    BY <1>0, <1>6 DEF DropsRow, Same, reports, RequestIs, Begins, OneAtATime, Serial, JobIsOwn, AllUsed, TypeOK, DecisionsSurvive
  <2>2. DecisionsSurvive'
    BY <1>0, <1>6 DEF DropsRow, Same, reports, RequestIs, Begins, DecisionsSurvive, OneAtATime, Serial, JobIsOwn, AllUsed, TypeOK
  <2>3. Managed'
    BY <1>0, <1>6 DEF DropsRow, Same, reports, RequestIs, Begins, Managed, OneAtATime, Serial, JobIsOwn, TypeOK
  <2>. QED
    BY <2>1, <2>2, <2>3, <2>4
<1>7. ASSUME NEW h \in Requests, DropsToken(h)
      PROVE  OneAtATime' /\ Serial' /\ DecisionsSurvive' /\ Managed'
  <2>4. OneAtATime'
    BY <1>0, <1>7 DEF DropsToken, Same, reports, RequestIs, Begins, OneAtATime
  <2>1. Serial'
    BY <1>0, <1>7 DEF DropsToken, Same, reports, RequestIs, Begins, OneAtATime, Serial, JobIsOwn, AllUsed, TypeOK, DecisionsSurvive
  <2>2. DecisionsSurvive'
    BY <1>0, <1>7 DEF DropsToken, Same, reports, RequestIs, Begins, DecisionsSurvive, OneAtATime, Serial, JobIsOwn, AllUsed, TypeOK
  <2>3. Managed'
    BY <1>0, <1>7 DEF DropsToken, Same, reports, RequestIs, Begins, Managed, OneAtATime, Serial, JobIsOwn, TypeOK
  <2>. QED
    BY <2>1, <2>2, <2>3, <2>4
<1>8. ASSUME NEW h \in Requests, DropsAll(h)
      PROVE  OneAtATime' /\ Serial' /\ DecisionsSurvive' /\ Managed'
  <2>4. OneAtATime'
    BY <1>0, <1>8 DEF DropsAll, Same, reports, RequestIs, Begins, OneAtATime
  <2>1. Serial'
    BY <1>0, <1>8 DEF DropsAll, Same, reports, RequestIs, Begins, OneAtATime, Serial, JobIsOwn, AllUsed, TypeOK, DecisionsSurvive
  <2>2. DecisionsSurvive'
    BY <1>0, <1>8 DEF DropsAll, Same, reports, RequestIs, Begins, DecisionsSurvive, OneAtATime, Serial, JobIsOwn, AllUsed, TypeOK
  <2>3. Managed'
    BY <1>0, <1>8 DEF DropsAll, Same, reports, RequestIs, Begins, Managed, OneAtATime, Serial, JobIsOwn, TypeOK
  <2>. QED
    BY <2>1, <2>2, <2>3, <2>4
<1>9. ASSUME NEW h \in Requests, DropsRows(h)
      PROVE  OneAtATime' /\ Serial' /\ DecisionsSurvive' /\ Managed'
  <2>4. OneAtATime'
    BY <1>0, <1>9 DEF DropsRows, Same, reports, RequestIs, Begins, OneAtATime
  <2>1. Serial'
    BY <1>0, <1>9 DEF DropsRows, Same, reports, RequestIs, Begins, OneAtATime, Serial, JobIsOwn, AllUsed, TypeOK, DecisionsSurvive
  <2>2. DecisionsSurvive'
    BY <1>0, <1>9 DEF DropsRows, Same, reports, RequestIs, Begins, DecisionsSurvive, OneAtATime, Serial, JobIsOwn, AllUsed, TypeOK
  <2>3. Managed'
    BY <1>0, <1>9 DEF DropsRows, Same, reports, RequestIs, Begins, Managed, OneAtATime, Serial, JobIsOwn, TypeOK
  <2>. QED
    BY <2>1, <2>2, <2>3, <2>4
<1>10. ASSUME NEW h \in Requests, Reads(h)
      PROVE  OneAtATime' /\ Serial' /\ DecisionsSurvive' /\ Managed'
  <2>4. OneAtATime'
    BY <1>0, <1>10 DEF Reads, Same, reports, RequestIs, Begins, OneAtATime
  <2>1. Serial'
    BY <1>0, <1>10 DEF Reads, Same, reports, RequestIs, Begins, OneAtATime, Serial, JobIsOwn, AllUsed, TypeOK, DecisionsSurvive
  <2>2. DecisionsSurvive'
    BY <1>0, <1>10 DEF Reads, Same, reports, RequestIs, Begins, DecisionsSurvive, OneAtATime, Serial, JobIsOwn, AllUsed, TypeOK
  <2>3. Managed'
    BY <1>0, <1>10 DEF Reads, Same, reports, RequestIs, Begins, Managed, OneAtATime, Serial, JobIsOwn, TypeOK
  <2>. QED
    BY <2>1, <2>2, <2>3, <2>4
<1>11. ASSUME NEW h \in Requests, Saves(h)
      PROVE  OneAtATime' /\ Serial' /\ DecisionsSurvive' /\ Managed'
  <2>4. OneAtATime'
    BY <1>0, <1>11 DEF Saves, Same, reports, RequestIs, Begins, OneAtATime
  <2>1. Serial'
    BY <1>0, <1>11 DEF Saves, Same, reports, RequestIs, Begins, OneAtATime, Serial, JobIsOwn, AllUsed, TypeOK, DecisionsSurvive
  <2>2. DecisionsSurvive'
    BY <1>0, <1>11 DEF Saves, Same, reports, RequestIs, Begins, DecisionsSurvive, OneAtATime, Serial, JobIsOwn, AllUsed, TypeOK
  <2>3. Managed'
    BY <1>0, <1>11 DEF Saves, Same, reports, RequestIs, Begins, Managed, OneAtATime, Serial, JobIsOwn, TypeOK
  <2>. QED
    BY <2>1, <2>2, <2>3, <2>4
<1>. QED
  BY <1>1, <1>2, <1>3, <1>4, <1>5, <1>6, <1>7, <1>8, <1>9, <1>10, <1>11, Kinds DEF RequestKind

-----------------------------------------------------------------------------
LEMMA InvariantHolds == Spec => []IInv
<1>1. ASSUME Init
      PROVE  IInv
  <2>1. MaxCodes \in Nat /\ 1 \in Codes /\ Used = {} /\ NoJob.op = "none" /\ NoJob.of = {}
    BY <1>1, PairingConstants DEF Init, PairingConstants, Codes, Used, NoJob
  <2>2. TypeOK
    <3>1. NoJob \in [op : Ops, of : SUBSET Tokens] /\ Overlaps \subseteq BOOLEAN
      BY PairingConstants DEF NoJob, Ops, PairingConstants
    <3>2. code \in 0..MaxCodes /\ issued \in Codes
      BY <1>1, <2>1 DEF Init
    <3>. QED
      BY <1>1, <3>1, <3>2 DEF Init, TypeOK
  <2>3. CodesFit
    BY <1>1, <2>1 DEF Init, CodesFit
  <2>4. Own
    BY <1>1, <2>1 DEF Init, Own, AllUsed, PairingsApart, JobIsOwn, DecisionsStandInMemory
  <2>5. Kept
    BY <1>1, <2>1 DEF Init, Kept, OneAtATime, Serial, DecisionsSurvive, Managed
  <2>. QED
    BY <2>2, <2>3, <2>4, <2>5 DEF IInv
<1>2. IInv /\ Next => IInv'
  BY CodesKept, TypeKept, OwnKept, SerialKept DEF IInv, Own, Kept
<1>3. IInv /\ UNCHANGED vars => IInv'
  BY DEF vars, reports, IInv, TypeOK, CodesFit, Own, AllUsed, Used, PairingsApart, JobIsOwn,
         DecisionsStandInMemory, Kept, OneAtATime, Serial, DecisionsSurvive, Managed
<1>. QED
  BY <1>1, <1>2, <1>3, PTL DEF Spec

(* Types, for any number of requests, tokens and codes.                    *)
THEOREM TypesHold == Spec => []TypeOK
BY InvariantHolds, PTL DEF IInv

(* try_pair exchanges no code for two tokens.                              *)
THEOREM CodesAreUsedOnce == Spec => []CodeUsedOnce
<1>1. ASSUME IInv
      PROVE  CodeUsedOnce
  <2>1. ASSUME NEW c \in Codes
        PROVE  Cardinality(minted[c]) <= 1
    <3>1. CASE minted[c] = {}
      BY <3>1, FS_EmptySet
    <3>2. ASSUME NEW t \in minted[c]
          PROVE  Cardinality(minted[c]) <= 1
      <4>1. minted[c] = {t}
        BY <1>1, <3>2 DEF IInv, CodesFit
      <4>. QED
        BY <4>1, FS_Singleton
    <3>. QED
      BY <3>1, <3>2
  <2>. QED
    BY <2>1 DEF CodeUsedOnce
<1>. QED
  BY <1>1, InvariantHolds, PTL

(* The rollbacks of submit_pairing_enhanced and handle_pair take back      *)
(* nothing but their own token.                                            *)
THEOREM DecisionsStand == Spec => []DecisionsStandInMemory
BY InvariantHolds, PTL DEF IInv, Own

(* One request at a time, config.toml is true to what was answered, also   *)
(* after saves that failed half-way and restarts.                          *)
THEOREM DecisionsAreKept == Spec => []DecisionsSurvive
BY InvariantHolds, PTL DEF IInv, Kept

(* The registry lists every token the gateway accepts.                     *)
THEOREM RegistryIsComplete == Spec => []TokensAreManaged
<1>1. IInv => TokensAreManaged
  BY DEF IInv, Kept, Managed, TokensAreManaged
<1>. QED
  BY <1>1, InvariantHolds, PTL
=============================================================================
