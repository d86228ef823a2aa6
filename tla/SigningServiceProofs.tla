------------------------- MODULE SigningServiceProofs -------------------------
(***************************************************************************)
(* What the answers and the audit trail of the signing pipeline say is     *)
(* true, for any number of calls, requests and blocks, and the blockhash   *)
(* cache never falls back.                                                 *)
(***************************************************************************)
EXTENDS SigningService, TLAPS

\* Before Vault is asked, while the node is asked, and after.
Early == {"new", "hash", "fetch", "fetched", "simulate", "sign"}

\* What holds of a call by itself: its effects follow its progress, and a stage
\* on which it ended says which effects there are.
CallInv(c) ==
  /\ call[c].pc \in Early => c \notin signed /\ c \notin taken
  /\ call[c].pc = "send" => c \notin taken
  /\ call[c].pc \in Early \cup {"send"} => call[c].stage = "none"
  /\ call[c].pc = "audit" => call[c].stage \in Audited
  /\ call[c].pc = "done" => call[c].stage \in Stage
  /\ call[c].stage = "Submitted" => c \in taken
  /\ call[c].stage \in Rejections \cup {"RoleDenied", "InvalidFormat"}
       => c \notin signed /\ c \notin taken

\* An entry belongs to a call that has ended and names the stage it ended on.
EntryInv(c) ==
  /\ call[c].pc \notin {"done", "gone"} => EntriesOf(c) = {}
  /\ \A i, j \in EntriesOf(c) : i = j
  /\ \A i \in EntriesOf(c) : trail[i].stage = call[c].stage
  /\ call[c].pc = "done" /\ call[c].stage \in Audited /\ c \notin unlogged
       => EntriesOf(c) # {}

\* The answer under way to the refresh task is not older than the cache.
CacheInv == blockhash_cache # NoHash /\ refresh # NoHash => blockhash_cache <= refresh

IInv ==
  /\ TypeOK
  /\ \A c \in Call : CallInv(c) /\ EntryInv(c)
  /\ CacheInv

-----------------------------------------------------------------------------
\* What GoTo changes: the pc and the blockhash of one call.
LEMMA GoToEffect ==
  ASSUME call \in [Call -> CallState], NEW c \in Call, NEW h \in Hash,
         NEW pc \in {"new", "done", "gone"} \cup Working, GoTo(c, pc, h)
  PROVE  /\ call' \in [Call -> CallState]
         /\ call'[c].pc = pc /\ call'[c].hash = h /\ call'[c].stage = call[c].stage
         /\ \A d \in Call : d # c => call'[d] = call[d]
  BY ZenonT(30) DEF GoTo, CallState

\* What Ends changes: the pc and the stage of one call.
LEMMA EndsEffect ==
  ASSUME call \in [Call -> CallState], NEW c \in Call, NEW stage \in Stage, Ends(c, stage)
  PROVE  /\ call' \in [Call -> CallState]
         /\ call'[c].pc = IF stage \in Audited THEN "audit" ELSE "done"
         /\ call'[c].stage = stage /\ call'[c].hash = call[c].hash
         /\ \A d \in Call : d # c => call'[d] = call[d]
<1> DEFINE pc == IF stage \in Audited THEN "audit" ELSE "done"
           r == [call[c] EXCEPT !.pc = pc, !.stage = stage]
<1>1. pc \in {"new", "done", "gone"} \cup Working
  BY DEF Working
<1>2. call[c] \in CallState
  OBVIOUS
<1>3. call' = [call EXCEPT ![c] = r]
  BY Zenon DEF Ends
<1> HIDE DEF pc
<1>4. r \in CallState /\ r.pc = pc /\ r.stage = stage /\ r.hash = call[c].hash
  BY Zenon, <1>1, <1>2 DEF CallState
<1> HIDE DEF r
<1>5. /\ call' \in [Call -> CallState] /\ call'[c] = r
      /\ \A d \in Call : d # c => call'[d] = call[d]
  BY <1>3, <1>4
<1> QED
  BY <1>4, <1>5 DEF pc

\* The blockhashes a call carries.
LEMMA FieldTypes ==
  ASSUME TypeOK, NEW c \in Call
  PROVE  call[c].hash \in Hash /\ call[c].req.hash \in Hash
<1>1. call[c].hash \in Hash /\ call[c].req \in Request
  BY DEF TypeOK, CallState
<1>2. call[c].req \in RequestFields
  BY <1>1, SigningAssumption
<1> QED
  BY <1>1, <1>2 DEF RequestFields

\* An appended entry is the last one, and the others stay where they are.
LEMMA AppendEffect ==
  ASSUME NEW S, NEW s \in Seq(S), NEW e \in S
  PROVE  /\ Append(s, e) \in Seq(S)
         /\ DOMAIN s = 1..Len(s) /\ DOMAIN Append(s, e) = 1..(Len(s) + 1) /\ Len(s) \in Nat
         /\ \A i \in DOMAIN s : Append(s, e)[i] = s[i]
         /\ Append(s, e)[Len(s) + 1] = e
  OBVIOUS

\* A step of one call: it keeps the types if it keeps them for that call.
LEMMA TypeFrame ==
  ASSUME TypeOK, NEW c \in Call, call' \in [Call -> CallState],
         \A d \in Call : d # c => call'[d] = call[d],
         call'[c].pc \in {"fetched", "simulate", "sign"} => call'[c].hash # NoHash,
         UNCHANGED <<env, blocks>>,
         signed' \in {signed, signed \cup {c}}, taken' \in {taken, taken \cup {c}},
         unlogged' \in {unlogged, unlogged \cup {c}},
         trail' \in Seq([call : Call, stage : Audited])
  PROVE  TypeOK'
  BY DEF TypeOK, blocks

\* A step of one call that moves on and leaves the audit trail alone.
LEMMA TypeGoTo ==
  ASSUME TypeOK, NEW c \in Call, NEW h \in Hash, NEW pc \in Working, GoTo(c, pc, h),
         pc \in {"fetched", "simulate", "sign"} => h # NoHash,
         UNCHANGED <<env, blocks, trail, unlogged>>,
         signed' \in {signed, signed \cup {c}}, taken' \in {taken, taken \cup {c}}
  PROVE  TypeOK'
<1>1. call \in [Call -> CallState] /\ trail' \in Seq([call : Call, stage : Audited])
  BY DEF TypeOK
<1>2. /\ call' \in [Call -> CallState] /\ call'[c].pc = pc /\ call'[c].hash = h
      /\ \A d \in Call : d # c => call'[d] = call[d]
  <2>1. pc \in {"new", "done", "gone"} \cup Working
    OBVIOUS
  <2> QED
    BY ONLY <1>1, <2>1, c \in Call, h \in Hash, GoTo(c, pc, h), GoToEffect
<1> QED
  BY Zenon, <1>1, <1>2, TypeFrame

\* A step of one call that ends on a stage.
LEMMA TypeEnds ==
  ASSUME TypeOK, NEW c \in Call, NEW stage \in Stage, Ends(c, stage),
         UNCHANGED <<env, blocks, trail, unlogged>>,
         signed' \in {signed, signed \cup {c}}, taken' \in {taken, taken \cup {c}}
  PROVE  TypeOK'
<1>1. call \in [Call -> CallState] /\ trail' \in Seq([call : Call, stage : Audited])
  BY DEF TypeOK
<1>2. /\ call' \in [Call -> CallState] /\ call'[c].pc \in {"audit", "done"}
      /\ \A d \in Call : d # c => call'[d] = call[d]
  BY <1>1, EndsEffect
<1> QED
  BY Zenon, <1>1, <1>2, TypeFrame

\* A step of one call that returns from record_audit.
LEMMA TypeAudit ==
  ASSUME TypeOK, NEW c \in Call, CallInv(c), NEW pc \in {"done", "gone"},
         GoTo(c, pc, call[c].hash), UNCHANGED <<env, blocks>>,
         signed' \in {signed, signed \cup {c}}, taken' \in {taken, taken \cup {c}},
         unlogged' \in {unlogged, unlogged \cup {c}},
         trail' = trail \/ (call[c].pc = "audit" /\ trail' = Append(trail, Entry(c)))
  PROVE  TypeOK'
<1> DEFINE S == [call : Call, stage : Audited]
           e == Entry(c)
<1>1. call \in [Call -> CallState] /\ trail \in Seq(S) /\ call[c].hash \in Hash
  BY DEF TypeOK, CallState
<1>2. call[c].pc = "audit" => e \in S
  BY DEF Entry, CallInv
<1>3. trail' \in Seq(S)
  <2> HIDE DEF S, e
  <2>1. trail' = trail \/ (call[c].pc = "audit" /\ trail' = Append(trail, e))
    BY DEF e
  <2> QED
    BY <1>1, <1>2, <2>1, AppendEffect
<1>4. /\ call' \in [Call -> CallState] /\ call'[c].pc = pc
      /\ \A d \in Call : d # c => call'[d] = call[d]
  BY <1>1, GoToEffect
<1> QED
  BY Zenon, <1>3, <1>4, TypeFrame

\* Every step keeps the types.
LEMMA TypeStep ==
  ASSUME TypeOK, \A c \in Call : CallInv(c), [Next]_vars
  PROVE  TypeOK'
<1> USE SigningAssumption
<1>0. call \in [Call -> CallState] /\ env \in Env /\ trail \in Seq([call : Call, stage : Audited])
  BY DEF TypeOK
<1>1. \A c \in Call : call[c].hash \in Hash /\ call[c].req.hash \in Hash
  BY FieldTypes
<1>2. AfterHash \in {"simulate", "sign"} /\ AfterHash \in Working
  BY DEF AfterHash, Working
<1>3. blockhash_cache \in Hash /\ height \in Hash /\ height # NoHash
  BY DEF TypeOK, Hash
<1>4. ASSUME NEW c \in Call, Submit(c)
      PROVE  TypeOK'
  <2>1. UNCHANGED <<env, blocks, signed, taken, trail, unlogged>>
    BY <1>4 DEF Submit, effects, audit
  <2>2. CASE \E stage \in {"RoleDenied", "InvalidFormat", "PolicyRejected", "KeyNotAuthorized"} :
               Ends(c, stage)
    <3>1. PICK stage \in Stage : Ends(c, stage)
      BY <2>2 DEF Stage, Silent, Audited, Rejections
    <3> QED
      BY <2>1, <3>1, TypeEnds
  <2>3. CASE GoTo(c, "send", call[c].req.hash)
    BY <1>1, <2>1, <2>3, TypeGoTo DEF Working
  <2>4. CASE GoTo(c, "hash", NoHash)
    BY Zenon, <2>1, <2>4, TypeGoTo DEF Working, Hash
  <2>5. CASE call[c].req.hash # NoHash /\ GoTo(c, AfterHash, call[c].req.hash)
    BY <1>1, <1>2, <2>1, <2>5, TypeGoTo
  <2> QED
    BY <1>4, <2>2, <2>3, <2>4, <2>5 DEF Submit
<1>5. ASSUME NEW c \in Call, ReadCache(c)
      PROVE  TypeOK'
  <2>1. UNCHANGED <<env, blocks, signed, taken, trail, unlogged>>
    BY <1>5 DEF ReadCache, effects, audit
  <2>2. CASE blockhash_cache # NoHash /\ GoTo(c, AfterHash, blockhash_cache)
    BY <1>2, <1>3, <2>1, <2>2, TypeGoTo
  <2>3. CASE GoTo(c, "fetch", NoHash)
    BY Zenon, <2>1, <2>3, TypeGoTo DEF Working, Hash
  <2> QED
    BY <1>5, <2>2, <2>3 DEF ReadCache
<1>6. ASSUME NEW c \in Call, FetchAnswer(c)
      PROVE  TypeOK'
  <2>1. UNCHANGED <<env, blocks, signed, taken, trail, unlogged>> /\ GoTo(c, "fetched", height)
    BY <1>6 DEF FetchAnswer, effects, audit
  <2> QED
    BY <1>3, <2>1, TypeGoTo DEF Working
<1>7. ASSUME NEW c \in Call, FetchReturn(c)
      PROVE  TypeOK'
  <2>1. /\ UNCHANGED <<env, blocks, signed, taken, trail, unlogged>>
        /\ call[c].pc = "fetched" /\ GoTo(c, AfterHash, call[c].hash)
    BY <1>7 DEF FetchReturn, effects, audit
  <2>2. call[c].hash # NoHash
    BY <2>1 DEF TypeOK
  <2> QED
    BY <1>1, <1>2, <2>1, <2>2, TypeGoTo
<1>8. ASSUME NEW c \in Call, FetchFail(c)
      PROVE  TypeOK'
  <2>1. /\ UNCHANGED <<env, blocks, signed, taken, trail, unlogged>>
        /\ Ends(c, "BlockhashRefreshFailed") /\ "BlockhashRefreshFailed" \in Stage
    BY <1>8 DEF FetchFail, effects, audit, Stage, Silent
  <2> QED
    BY <2>1, TypeEnds
<1>9. ASSUME NEW c \in Call, Simulate(c)
      PROVE  TypeOK'
  <2>1. UNCHANGED <<env, blocks, signed, taken, trail, unlogged>> /\ call[c].pc = "simulate"
    BY <1>9 DEF Simulate, effects, audit
  <2>2. CASE Ends(c, "SimulationRejected")
    <3>1. "SimulationRejected" \in Stage
      BY DEF Stage, Audited, Rejections
    <3> QED
      BY <2>1, <2>2, <3>1, TypeEnds
  <2>3. CASE GoTo(c, "sign", call[c].hash)
    <3>1. call[c].hash # NoHash
      BY <2>1 DEF TypeOK
    <3> QED
      BY <1>1, <2>1, <2>3, <3>1, TypeGoTo DEF Working
  <2> QED
    BY <1>9, <2>2, <2>3 DEF Simulate
<1>10. ASSUME NEW c \in Call, SignMessage(c)
       PROVE  TypeOK'
  <2>1. UNCHANGED <<env, blocks, taken, trail, unlogged>> /\ signed' \in {signed, signed \cup {c}}
    BY <1>10 DEF SignMessage, VaultEffects, audit
  <2>2. CASE GoTo(c, "send", call[c].hash)
    <3>1. call[c].hash \in Hash /\ "send" \in Working
      BY <1>1 DEF Working
    <3> QED
      BY <2>1, <2>2, <3>1, TypeGoTo
  <2>3. CASE Ends(c, "VaultSigningFailed")
    <3>1. "VaultSigningFailed" \in Stage
      BY DEF Stage, Silent
    <3> QED
      BY <2>1, <2>3, <3>1, TypeEnds
  <2> QED
    BY <1>10, <2>2, <2>3 DEF SignMessage, VaultEffects
<1>11. ASSUME NEW c \in Call, SendTransaction(c)
       PROVE  TypeOK'
  <2>1. UNCHANGED <<env, blocks, signed, trail, unlogged>> /\ taken' \in {taken, taken \cup {c}}
    BY <1>11 DEF SendTransaction, audit
  <2>2. PICK stage \in Stage : Ends(c, stage)
    BY <1>11 DEF SendTransaction, Stage, Audited
  <2> QED
    BY <2>1, <2>2, TypeEnds
<1>12. ASSUME NEW c \in Call, RecordAudit(c)
       PROVE  TypeOK'
  BY <1>12, TypeAudit DEF RecordAudit, effects
<1>13. ASSUME NEW c \in Call, Drop(c)
       PROVE  TypeOK'
  <2>1. /\ UNCHANGED <<env, blocks, unlogged>> /\ GoTo(c, "gone", call[c].hash)
        /\ signed' \in {signed, signed \cup {c}} /\ taken' \in {taken, taken \cup {c}}
        /\ trail' = trail \/ (call[c].pc = "audit" /\ trail' = Append(trail, Entry(c)))
    BY <1>13 DEF Drop
  <2> QED
    BY <2>1, TypeAudit
<1>14. CASE RefreshAnswer \/ RefreshReturn \/ NewBlock \/ UNCHANGED vars
  BY <1>14 DEF RefreshAnswer, RefreshReturn, NewBlock, vars, TypeOK, effects, audit
<1> QED
  BY <1>4, <1>5, <1>6, <1>7, <1>8, <1>9, <1>10, <1>11, <1>12, <1>13, <1>14 DEF Next

-----------------------------------------------------------------------------
\* A step of one call does not touch what holds of another.
LEMMA OtherCall ==
  ASSUME NEW c \in Call, NEW d \in Call, d # c, CallInv(d), call'[d] = call[d],
         signed' \in {signed, signed \cup {c}}, taken' \in {taken, taken \cup {c}}
  PROVE  CallInv(d)'
  BY DEF CallInv

\* Moving on without an effect, towards Vault or to an unsigned send.
LEMMA CallMoves ==
  ASSUME call \in [Call -> CallState], NEW c \in Call, CallInv(c), call[c].pc \in Early,
         NEW pc \in Early \cup {"send"}, pc # "new", NEW h \in Hash, GoTo(c, pc, h),
         taken' = taken, pc \in Early => signed' = signed
  PROVE  CallInv(c)'
<1>1. pc \in Working /\ "send" \notin Early
  BY DEF Working, Early
<1>2. call'[c].pc = pc /\ call'[c].stage = call[c].stage
  <2>1. pc \in {"new", "done", "gone"} \cup Working
    BY <1>1
  <2> QED BY <2>1, GoToEffect
<1>3. call[c].stage = "none" /\ c \notin taken /\ c \notin signed
  BY DEF CallInv
<1>4. "none" \notin Rejections \cup {"RoleDenied", "InvalidFormat", "Submitted"}
  BY DEF Rejections
<1>5. pc \notin {"audit", "done"}
  BY DEF Early
<1> QED
  BY <1>1, <1>2, <1>3, <1>4, <1>5 DEF CallInv

\* Ending on a stage that is true of the effects.
LEMMA CallEnds ==
  ASSUME call \in [Call -> CallState], NEW c \in Call, NEW stage \in Stage, Ends(c, stage),
         stage = "Submitted" => c \in taken',
         stage \in Rejections \cup {"RoleDenied", "InvalidFormat"}
           => c \notin signed' /\ c \notin taken'
  PROVE  CallInv(c)'
<1>1. /\ call'[c].pc = IF stage \in Audited THEN "audit" ELSE "done"
      /\ call'[c].stage = stage
  BY EndsEffect
<1>2. "audit" \notin Early \cup {"send"} /\ "done" \notin Early \cup {"send"}
  BY DEF Early
<1> QED
  BY <1>1, <1>2 DEF CallInv

\* Every step of a call keeps what holds of it.
LEMMA CallStep ==
  ASSUME TypeOK, NEW c \in Call, CallInv(c),
         \/ Submit(c) \/ ReadCache(c) \/ FetchAnswer(c) \/ FetchReturn(c) \/ FetchFail(c)
         \/ Simulate(c) \/ SignMessage(c) \/ SendTransaction(c) \/ RecordAudit(c) \/ Drop(c)
  PROVE  CallInv(c)'
<1> USE SigningAssumption
<1>0. call \in [Call -> CallState]
  BY DEF TypeOK
<1>1. /\ call[c].hash \in Hash /\ call[c].req.hash \in Hash
      /\ blockhash_cache \in Hash /\ height \in Hash /\ NoHash \in Hash
  BY FieldTypes DEF TypeOK, Hash
<1>2. /\ AfterHash \in {"simulate", "sign"} /\ {"simulate", "sign", "hash", "fetch", "fetched"} \subseteq Early
      /\ {"BlockhashRefreshFailed", "VaultSigningFailed"} \cap (Rejections \cup {"RoleDenied", "InvalidFormat", "Submitted"}) = {}
      /\ {"Submitted", "SubmissionFailed"} \cap (Rejections \cup {"RoleDenied", "InvalidFormat"}) = {}
      /\ Silent \subseteq Stage /\ Rejections \subseteq Stage /\ {"Submitted", "SubmissionFailed"} \subseteq Stage
      /\ "Submitted" \notin Rejections
  BY DEF AfterHash, Early, Rejections, Silent, Stage, Audited
<1>3. CASE Submit(c)
  <2>1. signed' = signed /\ taken' = taken /\ call[c].pc \in Early
    BY <1>3 DEF Submit, effects, Early
  <2>2. c \notin signed /\ c \notin taken
    BY <2>1 DEF CallInv
  <2>3. ASSUME NEW stage \in Rejections \cup {"RoleDenied", "InvalidFormat"}, Ends(c, stage)
        PROVE  CallInv(c)'
    <3>1. stage \in Stage /\ stage # "Submitted"
      BY DEF Stage, Silent, Audited, Rejections
    <3> QED
      BY <1>0, <2>1, <2>2, <2>3, <3>1, CallEnds
  <2>4. CASE GoTo(c, "send", call[c].req.hash)
    BY <1>0, <1>1, <2>1, <2>4, CallMoves DEF Early
  <2>5. CASE GoTo(c, "hash", NoHash)
    BY <1>0, <1>1, <1>2, <2>1, <2>5, CallMoves
  <2>6. CASE GoTo(c, AfterHash, call[c].req.hash)
    BY <1>0, <1>1, <1>2, <2>1, <2>6, CallMoves
  <2>7. {"PolicyRejected", "KeyNotAuthorized"} \subseteq Rejections
    BY DEF Rejections
  <2> QED
    BY ZenonT(30), <1>3, <2>3, <2>4, <2>5, <2>6, <2>7 DEF Submit
<1>4. CASE ReadCache(c)
  <2>1. signed' = signed /\ taken' = taken /\ call[c].pc \in Early
    BY <1>2, <1>4 DEF ReadCache, effects
  <2>2. PICK pc \in {"simulate", "sign", "fetch"}, h \in Hash : GoTo(c, pc, h)
    BY <1>1, <1>2, <1>4 DEF ReadCache
  <2> QED
    BY <1>0, <1>2, <2>1, <2>2, CallMoves
<1>5. CASE FetchAnswer(c) \/ FetchReturn(c)
  <2>1. signed' = signed /\ taken' = taken /\ call[c].pc \in Early
    BY <1>2, <1>5 DEF FetchAnswer, FetchReturn, effects
  <2>2. PICK pc \in {"simulate", "sign", "fetched"}, h \in Hash : GoTo(c, pc, h)
    BY <1>1, <1>2, <1>5 DEF FetchAnswer, FetchReturn
  <2> QED
    BY <1>0, <1>2, <2>1, <2>2, CallMoves
<1>6. CASE FetchFail(c)
  <2>1. Ends(c, "BlockhashRefreshFailed") /\ "BlockhashRefreshFailed" \in Stage
    BY <1>6 DEF FetchFail, Stage, Silent
  <2> QED
    BY <1>0, <1>2, <2>1, CallEnds
<1>7. CASE Simulate(c)
  <2>1. signed' = signed /\ taken' = taken /\ call[c].pc \in Early
    BY <1>2, <1>7 DEF Simulate, effects
  <2>2. CASE Ends(c, "SimulationRejected")
    <3>1. "SimulationRejected" \in Stage /\ c \notin signed /\ c \notin taken
      BY <2>1 DEF Stage, Audited, Rejections, CallInv
    <3> QED
      BY <1>0, <2>1, <2>2, <3>1, CallEnds
  <2>3. CASE GoTo(c, "sign", call[c].hash)
    BY <1>0, <1>1, <1>2, <2>1, <2>3, CallMoves
  <2> QED
    BY Zenon, <1>7, <2>2, <2>3 DEF Simulate
<1>8. CASE SignMessage(c)
  <2>1. taken' = taken /\ call[c].pc \in Early
    BY <1>2, <1>8 DEF SignMessage, VaultEffects
  <2>2. CASE GoTo(c, "send", call[c].hash)
    BY <1>0, <1>1, <2>1, <2>2, CallMoves DEF Early
  <2>3. CASE Ends(c, "VaultSigningFailed")
    <3>1. "VaultSigningFailed" \in Stage
      BY DEF Stage, Silent
    <3> QED
      BY <1>0, <1>2, <2>3, <3>1, CallEnds
  <2> QED
    BY <1>8, <2>2, <2>3 DEF SignMessage, VaultEffects
<1>9. CASE SendTransaction(c)
  <2>1. PICK stage \in {"Submitted", "SubmissionFailed"} :
          Ends(c, stage) /\ (stage = "Submitted" => c \in taken')
    BY Zenon, <1>9 DEF SendTransaction
  <2> QED
    BY <1>0, <1>2, <2>1, CallEnds
<1>10. CASE RecordAudit(c)
  <2>1. /\ signed' = signed /\ taken' = taken /\ call[c].pc = "audit"
        /\ call'[c].pc = "done" /\ call'[c].stage = call[c].stage
    BY <1>0, <1>1, <1>10, GoToEffect DEF RecordAudit, effects
  <2> QED
    BY <2>1 DEF CallInv, Early, Stage
<1>11. CASE Drop(c)
  <2>1. call'[c].pc = "gone" /\ call'[c].stage = call[c].stage
    BY <1>0, <1>1, <1>11, GoToEffect DEF Drop
  <2>2. signed' = signed \/ call[c].pc = "sign"
    BY <1>11 DEF Drop
  <2>3. taken' = taken \/ (call[c].pc = "send" /\ taken' = taken \cup {c})
    BY <1>11 DEF Drop
  <2>4. call[c].pc \in {"sign", "send"} => call[c].stage = "none"
    BY DEF CallInv, Early
  <2> QED
    BY Zenon, <2>1, <2>2, <2>3, <2>4 DEF CallInv, Early, Rejections
<1> QED
  BY <1>3, <1>4, <1>5, <1>6, <1>7, <1>8, <1>9, <1>10, <1>11

-----------------------------------------------------------------------------
\* What holds of the entries of a call whose entries and state stay.
LEMMA EntryKept ==
  ASSUME NEW d \in Call, EntryInv(d), call'[d] = call[d], EntriesOf(d)' = EntriesOf(d),
         \A i \in EntriesOf(d) : trail'[i].stage = trail[i].stage,
         d \in unlogged => d \in unlogged'
  PROVE  EntryInv(d)'
  BY DEF EntryInv

\* A step of a call that appends nothing.
LEMMA EntryQuiet ==
  ASSUME NEW c \in Call, EntryInv(c), call[c].pc \notin {"done", "gone"}, trail' = trail,
         call'[c].pc = "done" /\ call'[c].stage \in Audited => c \in unlogged'
  PROVE  EntryInv(c)'
<1>1. EntriesOf(c) = {} /\ EntriesOf(c)' = {}
  BY DEF EntryInv, EntriesOf
<1> QED
  BY <1>1 DEF EntryInv

\* A step of a call that appends its entry.
LEMMA EntryAppended ==
  ASSUME TypeOK, NEW c \in Call, \A d \in Call : CallInv(d) /\ EntryInv(d),
         call[c].pc = "audit", trail' = Append(trail, Entry(c)),
         call'[c].pc \in {"done", "gone"}, call'[c].stage = call[c].stage,
         \A d \in Call : d # c => call'[d] = call[d], unlogged' = unlogged
  PROVE  \A d \in Call : EntryInv(d)'
<1> DEFINE S == [call : Call, stage : Audited]
           e == Entry(c)
           n == Len(trail) + 1
<1>1. trail \in Seq(S) /\ e \in S
  BY DEF TypeOK, Entry, CallInv
<1>2. e.call = c /\ e.stage = call[c].stage
  BY DEF Entry
<1>3. /\ DOMAIN trail' = DOMAIN trail \cup {n} /\ n \notin DOMAIN trail
      /\ \A i \in DOMAIN trail : trail'[i] = trail[i]
      /\ trail'[n] = e
  <2> HIDE DEF S, e
  <2>1. trail' = Append(trail, e)
    BY DEF e
  <2> QED
    BY <1>1, <2>1, AppendEffect
<1> HIDE DEF n, e, S
<1>4. EntriesOf(c)' = {n}
  BY <1>2, <1>3 DEF EntryInv, EntriesOf
<1>5. EntryInv(c)'
  BY <1>2, <1>3, <1>4 DEF EntryInv
<1>6. ASSUME NEW d \in Call, d # c
      PROVE  EntryInv(d)'
  <2>1. /\ EntriesOf(d)' = EntriesOf(d)
        /\ \A i \in EntriesOf(d) : trail'[i].stage = trail[i].stage
    BY <1>2, <1>3, <1>6 DEF EntriesOf
  <2> QED
    BY Zenon, <1>6, <2>1, EntryKept
<1> QED
  BY <1>5, <1>6

\* The steps of a call that append nothing keep what holds of all entries.
LEMMA EntryFrame ==
  ASSUME NEW c \in Call, \A d \in Call : EntryInv(d), call[c].pc \notin {"done", "gone"},
         trail' = trail, unlogged' \in {unlogged, unlogged \cup {c}},
         \A d \in Call : d # c => call'[d] = call[d],
         call'[c].pc = "done" /\ call'[c].stage \in Audited => c \in unlogged'
  PROVE  \A d \in Call : EntryInv(d)'
<1>1. EntryInv(c)'
  BY EntryQuiet
<1>2. ASSUME NEW d \in Call, d # c
      PROVE  EntryInv(d)'
  <2>1. EntriesOf(d)' = EntriesOf(d)
    BY DEF EntriesOf
  <2> QED
    BY <1>2, <2>1, EntryKept
<1> QED
  BY <1>1, <1>2

\* Every step of a call changes that call only and keeps the entries in order.
LEMMA EntryStep ==
  ASSUME TypeOK, NEW c \in Call, \A d \in Call : CallInv(d) /\ EntryInv(d),
         \/ Submit(c) \/ ReadCache(c) \/ FetchAnswer(c) \/ FetchReturn(c) \/ FetchFail(c)
         \/ Simulate(c) \/ SignMessage(c) \/ SendTransaction(c) \/ RecordAudit(c) \/ Drop(c)
  PROVE  /\ \A d \in Call : d # c => call'[d] = call[d]
         /\ \A d \in Call : EntryInv(d)'
<1> USE SigningAssumption
<1>0. call \in [Call -> CallState]
  BY DEF TypeOK
<1>1. /\ call[c].hash \in Hash /\ call[c].req.hash \in Hash
      /\ blockhash_cache \in Hash /\ height \in Hash /\ NoHash \in Hash
  BY FieldTypes DEF TypeOK, Hash
<1>2. AfterHash \in Working /\ {"send", "hash", "fetch", "fetched", "sign"} \subseteq Working
  BY DEF AfterHash, Working
<1>3. CASE /\ call[c].pc \notin {"done", "gone"} /\ UNCHANGED <<trail, unlogged>>
           /\ \/ \E pc \in Working, h \in Hash : GoTo(c, pc, h)
              \/ \E stage \in Stage : Ends(c, stage)
  <2>1. CASE \E pc \in Working, h \in Hash : GoTo(c, pc, h)
    <3>1. /\ call'[c].pc \in Working /\ "done" \notin Working
          /\ \A d \in Call : d # c => call'[d] = call[d]
      BY <1>0, <2>1, GoToEffect DEF Working
    <3> QED
      BY <1>3, <3>1, EntryFrame
  <2>2. CASE \E stage \in Stage : Ends(c, stage)
    <3>1. /\ call'[c].pc = "done" => call'[c].stage \notin Audited
          /\ \A d \in Call : d # c => call'[d] = call[d]
      BY ZenonT(30), <1>0, <2>2, EndsEffect
    <3> QED
      BY <1>3, <3>1, EntryFrame
  <2> QED
    BY <1>3, <2>1, <2>2
<1>4. CASE Submit(c)
  <2>1. {"RoleDenied", "InvalidFormat", "PolicyRejected", "KeyNotAuthorized"} \subseteq Stage
    BY DEF Stage, Silent, Audited, Rejections
  <2> QED
    BY <1>1, <1>2, <1>3, <1>4, <2>1 DEF Submit, audit
<1>5. CASE ReadCache(c) \/ FetchAnswer(c) \/ FetchReturn(c)
  BY Zenon, <1>1, <1>2, <1>3, <1>5 DEF ReadCache, FetchAnswer, FetchReturn, audit
<1>6. CASE FetchFail(c) \/ Simulate(c)
  <2>1. {"BlockhashRefreshFailed", "SimulationRejected"} \subseteq Stage
    BY Zenon DEF Stage, Silent, Audited, Rejections
  <2> QED
    BY Zenon, <1>1, <1>2, <1>3, <1>6, <2>1 DEF FetchFail, Simulate, audit
<1>7. CASE SignMessage(c) \/ SendTransaction(c)
  <2>1. {"VaultSigningFailed", "Submitted", "SubmissionFailed"} \subseteq Stage
    BY DEF Stage, Silent, Audited
  <2> QED
    BY Zenon, <1>1, <1>2, <1>3, <1>7, <2>1 DEF SignMessage, VaultEffects, SendTransaction, audit
<1>8. CASE RecordAudit(c)
  <2>1. /\ call[c].pc = "audit"
        /\ call'[c].pc = "done" /\ call'[c].stage = call[c].stage
        /\ \A d \in Call : d # c => call'[d] = call[d]
    BY ZenonT(30), <1>0, <1>1, <1>8, GoToEffect DEF RecordAudit
  <2>2. CASE trail' = Append(trail, Entry(c)) /\ unlogged' = unlogged
    BY Zenon, <2>1, <2>2, EntryAppended
  <2>3. CASE unlogged' = unlogged \cup {c} /\ trail' = trail
    BY Zenon, <2>1, <2>3, EntryFrame
  <2> QED
    BY <1>8, <2>2, <2>3 DEF RecordAudit
<1>9. CASE Drop(c)
  <2>1. /\ call[c].pc \notin {"done", "gone"} /\ unlogged' = unlogged
        /\ trail' = trail \/ (call[c].pc = "audit" /\ trail' = Append(trail, Entry(c)))
    BY ZenonT(30), <1>9 DEF Drop, Working
  <2>2. /\ call'[c].pc = "gone" /\ call'[c].stage = call[c].stage
        /\ \A d \in Call : d # c => call'[d] = call[d]
    BY ZenonT(30), <1>0, <1>1, <1>9, GoToEffect DEF Drop
  <2>3. CASE call[c].pc = "audit" /\ trail' = Append(trail, Entry(c))
    BY Zenon, <2>1, <2>2, <2>3, EntryAppended
  <2>4. CASE trail' = trail
    BY <2>1, <2>2, <2>4, EntryFrame
  <2> QED
    BY <2>1, <2>3, <2>4
<1> QED
  BY <1>4, <1>5, <1>6, <1>7, <1>8, <1>9

-----------------------------------------------------------------------------
\* The invariant holds initially.
LEMMA IInvInit == Init => IInv
<1> SUFFICES ASSUME Init
             PROVE  IInv
  OBVIOUS
<1>1. PICK req \in [Call -> Request] : call = [c \in Call |-> Fresh(req[c])]
  BY DEF Init
<1>2. \A c \in Call : /\ call[c] \in CallState /\ call[c].pc = "new"
                      /\ call[c].hash = NoHash /\ call[c].stage = "none"
  BY <1>1 DEF Fresh, CallState, Hash
<1>3. TypeOK
  BY <1>1, <1>2, SigningAssumption DEF Init, TypeOK
<1>4. \A c \in Call : CallInv(c) /\ EntryInv(c)
  <2>1. DOMAIN trail = {}
    BY DEF Init
  <2>2. \A c \in Call : EntriesOf(c) = {}
    BY <2>1 DEF EntriesOf
  <2>3. \A c \in Call : EntryInv(c)
    BY <1>2, <2>2 DEF EntryInv
  <2>4. \A c \in Call : CallInv(c)
    BY <1>2 DEF Init, CallInv, Early, Rejections
  <2> QED
    BY <2>3, <2>4
<1> QED
  BY <1>3, <1>4 DEF IInv, CacheInv, Init

\* Every step keeps the invariant.
LEMMA IInvStep ==
  ASSUME IInv, [Next]_vars
  PROVE  IInv'
<1>1. TypeOK'
  BY TypeStep DEF IInv
<1>2. CASE \E c \in Call :
             \/ Submit(c) \/ ReadCache(c) \/ FetchAnswer(c) \/ FetchReturn(c) \/ FetchFail(c)
             \/ Simulate(c) \/ SignMessage(c) \/ SendTransaction(c) \/ RecordAudit(c) \/ Drop(c)
  <2>1. PICK c \in Call :
             \/ Submit(c) \/ ReadCache(c) \/ FetchAnswer(c) \/ FetchReturn(c) \/ FetchFail(c)
             \/ Simulate(c) \/ SignMessage(c) \/ SendTransaction(c) \/ RecordAudit(c) \/ Drop(c)
    BY <1>2
  <2>2. CallInv(c)'
    BY <2>1, CallStep DEF IInv
  <2>3. /\ \A d \in Call : d # c => call'[d] = call[d]
        /\ \A d \in Call : EntryInv(d)'
    BY <2>1, EntryStep DEF IInv
  <2>4. /\ UNCHANGED blocks
        /\ signed' \in {signed, signed \cup {c}} /\ taken' \in {taken, taken \cup {c}}
    BY Zenon, <2>1 DEF Submit, ReadCache, FetchAnswer, FetchReturn, FetchFail, Simulate,
                SignMessage, VaultEffects, SendTransaction, RecordAudit, Drop, effects
  <2>5. \A d \in Call : d # c => CallInv(d)'
    BY <2>3, <2>4, OtherCall DEF IInv
  <2>6. CacheInv'
    BY <2>4 DEF IInv, CacheInv, blocks
  <2> QED
    BY <1>1, <2>2, <2>3, <2>5, <2>6 DEF IInv
<1>3. CASE RefreshAnswer \/ RefreshReturn \/ NewBlock \/ UNCHANGED vars
  <2>1. UNCHANGED <<call, signed, taken, trail, unlogged>>
    BY <1>3 DEF RefreshAnswer, RefreshReturn, NewBlock, vars, effects, audit
  <2>2. \A c \in Call : CallInv(c)' /\ EntryInv(c)'
    <3>1. \A c \in Call : CallInv(c)'
      BY <2>1 DEF IInv, CallInv
    <3>2. \A c \in Call : EntriesOf(c)' = EntriesOf(c)
      BY <2>1 DEF EntriesOf
    <3>3. \A c \in Call : EntryInv(c)'
      BY <2>1, <3>2, EntryKept DEF IInv
    <3> QED
      BY <3>1, <3>3
  <2>3. CacheInv'
    BY <1>3, SigningAssumption DEF IInv, TypeOK, CacheInv, RefreshAnswer, RefreshReturn, NewBlock, vars
  <2> QED
    BY <1>1, <2>2, <2>3 DEF IInv
<1> QED
  BY <1>2, <1>3 DEF Next

\* The inductive invariant, for any number of calls, requests and blocks.
THEOREM Invariance == Spec => []IInv
  BY IInvInit, IInvStep, PTL DEF Spec

\* Every variable keeps its type: neither the blockhash cache nor its refresh
\* is ahead of the cluster, and Vault is asked to sign only with a blockhash set.
THEOREM SigningTypeCorrect == Spec => []TypeOK
<1>1. IInv => TypeOK
  BY DEF IInv
<1> QED
  BY <1>1, Invariance, PTL

\* What submit_transaction answers is true of Vault and the cluster.
THEOREM AnswersCorrect == Spec => []AnswersTruthful
<1>1. IInv => AnswersTruthful
  BY DEF IInv, CallInv, AnswersTruthful, Code, Stage, Silent, Audited, Rejections
<1> QED
  BY <1>1, Invariance, PTL

\* What the audit trail says is true of Vault and the cluster.
THEOREM TrailCorrect == Spec => []AuditTruthful
<1>1. ASSUME IInv, NEW i \in DOMAIN trail
      PROVE  /\ trail[i].stage = "Submitted" => trail[i].call \in taken
             /\ trail[i].stage \in Rejections => trail[i].call \notin signed \cup taken
  <2> DEFINE c == trail[i].call
         S == [call : Call, stage : Audited]
  <2>1. c \in Call /\ i \in EntriesOf(c)
    <3>1. trail \in Seq(S)
      BY <1>1 DEF IInv, TypeOK
    <3>2. \A r \in S : r.call \in Call
      OBVIOUS
    <3> HIDE DEF S
    <3>3. trail[i] \in S
      BY <1>1, <3>1
    <3> QED
      BY <1>1, <3>2, <3>3 DEF EntriesOf
  <2>2. trail[i].stage = call[c].stage /\ CallInv(c)
    BY <1>1, <2>1 DEF IInv, EntryInv
  <2> QED
    BY <2>2 DEF CallInv
<1>2. IInv => AuditTruthful
  BY <1>1 DEF AuditTruthful
<1> QED
  BY <1>2, Invariance, PTL

\* An answered call has its one entry, and no call has two.
THEOREM TrailComplete == Spec => []AuditComplete
<1>1. IInv => AuditComplete
  BY DEF IInv, EntryInv, AuditComplete
<1> QED
  BY <1>1, Invariance, PTL

\* The blockhash cache never falls back.
THEOREM CacheMonotone == Spec => CacheNeverGoesBack
<1>1. ASSUME IInv, [Next]_vars, blockhash_cache # NoHash
      PROVE  blockhash_cache' # NoHash /\ blockhash_cache <= blockhash_cache'
  <2>1. blockhash_cache' \in {blockhash_cache, refresh}
        /\ (refresh = NoHash => blockhash_cache' = blockhash_cache)
    <3>1. ASSUME NEW c \in Call, \/ Submit(c) \/ ReadCache(c)
                                 \/ FetchAnswer(c) \/ FetchReturn(c) \/ FetchFail(c)
                                 \/ Simulate(c) \/ SignMessage(c) \/ SendTransaction(c)
                                 \/ RecordAudit(c) \/ Drop(c)
          PROVE  blockhash_cache' = blockhash_cache
      BY Zenon, <3>1 DEF Submit, ReadCache, FetchAnswer, FetchReturn, FetchFail, Simulate,
                  SignMessage, SendTransaction, RecordAudit, Drop, blocks
    <3>2. CASE RefreshReturn
      BY <3>2 DEF RefreshReturn
    <3>3. CASE RefreshAnswer \/ NewBlock \/ UNCHANGED vars
      BY Zenon, <3>3 DEF RefreshAnswer, NewBlock, vars
    <3> QED
      BY Zenon, <1>1, <3>1, <3>2, <3>3 DEF Next
  <2> QED
    BY <1>1, <2>1 DEF IInv, TypeOK, CacheInv
<1>2. IInv /\ [Next]_vars => [blockhash_cache # NoHash =>
        blockhash_cache' # NoHash /\ blockhash_cache <= blockhash_cache']_vars
  BY <1>1
<1> QED
  BY <1>2, Invariance, PTL DEF Spec, CacheNeverGoesBack

=============================================================================
