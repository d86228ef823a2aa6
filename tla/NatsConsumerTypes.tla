------------------------ MODULE NatsConsumerTypes -------------------------
(***************************************************************************)
(* The type invariant of NatsConsumer, for all values of its constants.    *)
(***************************************************************************)
EXTENDS NatsConsumer, TLAPS

\* What the static assumptions say of a single envelope.
LEMMA EnvelopeFields ==
  ASSUME NEW m \in Msg
  PROVE  /\ Env[m].subject \in Subject /\ Env[m].corr \in Corr
         /\ Env[m].key \in Key \cup {NoKey}
         /\ Env[m].tx \in Tx /\ Env[m].blockhash \in Blockhash \cup {NoHash}
         /\ LeaseOf(m) \in Nat \ {0}
BY StaticAssumption, DurationAssumption DEF Envelope, LeaseOf

\* A keyed submit or mint addresses a slot of the dedup_store.
LEMMA DedupKeyType ==
  ASSUME NEW m \in Msg, Keyed(m), Env[m].subject \in {"submit", "mint"}
  PROVE  DedupKeyOf(m) \in DedupKey
BY EnvelopeFields DEF Keyed, DedupKeyOf, DedupKey

\* The handler records the actions assign are well-typed.
LEMMA IdleType == Idle \in Handler /\ WellFormed(Idle)
BY DurationAssumption DEF Idle, At, Handler, PC, WellFormed

\* A slot that holds no claim is a handler record.
LEMMA AtType ==
  ASSUME NEW m \in Msg, NEW pc \in {"audit", "query", "publish", "ack"},
         NEW sig \in Sig \cup {NoSig}, NEW reply \in {"success", "failure"}
  PROVE  At(pc, m, sig, reply) \in Handler /\ WellFormed(At(pc, m, sig, reply))
BY StaticAssumption, DurationAssumption DEF At, Handler, PC, WellFormed

\* A handler that just claimed is a handler record.
LEMMA ClaimingType ==
  ASSUME NEW m \in Msg, Env[m].subject \in {"submit", "mint"}
  PROVE  Claiming(m) \in Handler /\ WellFormed(Claiming(m))
BY StaticAssumption, DurationAssumption DEF Claiming, Handler, PC, WellFormed

\* The initial state is well-typed.
LEMMA TypeInit == Init => TypeOK
<1> SUFFICES ASSUME Init PROVE TypeOK
  OBVIOUS
<1>1. NoRecord \in DedupRecord
  BY DurationAssumption DEF NoRecord, DedupRecord
<1>2. \A m \in Msg : 0 <= LeaseOf(m)
  BY EnvelopeFields
<1> QED
  BY <1>1, <1>2, IdleType, DurationAssumption DEF Init, TypeOK


\* A busy handler works on a message.
LEMMA BusyMsg ==
  ASSUME TypeOK, NEW w \in Worker, worker[w].pc # "idle"
  PROVE  worker[w].msg \in Msg
BY DEF TypeOK, Handler, WellFormed

\* The checks end in one of four verdicts.
LEMMA ScreenVerdicts ==
  ASSUME NEW r, NEW m
  PROVE  {ScreenSubmit(r, m), ScreenMint(r, m), ScreenCancel(r, m), ScreenStatus(m)}
           \subseteq {"ack", "audit", "publish", "accept"}
BY DEF ScreenSubmit, ScreenMint, ScreenCancel, ScreenStatus

\* Replacing the handler of a slot by a well-formed one keeps the types.
LEMMA WorkerUpdate ==
  ASSUME TypeOK, NEW w \in Worker, NEW h \in Handler,
         WellFormed(h),
         worker' = [worker EXCEPT ![w] = h]
  PROVE  /\ worker' \in [Worker -> Handler]
         /\ \A u \in Worker : WellFormed(worker'[u])
BY DEF TypeOK

\* Putting a well-formed handler in a slot keeps the type of worker.
LEMMA WorkerAt ==
  ASSUME TypeOK, NEW w \in Worker, NEW m \in Msg, NEW pc \in {"audit", "query", "publish", "ack"},
         NEW sig \in Sig \cup {NoSig}, NEW reply \in {"success", "failure"},
         worker' = [worker EXCEPT ![w] = At(pc, m, sig, reply)]
  PROVE  /\ worker' \in [Worker -> Handler]
         /\ \A u \in Worker : WellFormed(worker'[u])
<1> DEFINE h == At(pc, m, sig, reply)
<1>1. h \in Handler /\ WellFormed(h)
  BY AtType
<1>2. worker' = [worker EXCEPT ![w] = h]
  OBVIOUS
<1> HIDE DEF h
<1> QED
  BY Zenon, <1>1, <1>2, WorkerUpdate

\* An early return keeps the types.
LEMMA TypeTurnAway ==
  ASSUME TypeOK, NEW w \in Worker, NEW m \in Msg,
         NEW v \in {"ack", "audit", "publish", "accept"},
         Take(w, m), TurnAway(w, m, v)
  PROVE  TypeOK'
<1>1. /\ worker' \in [Worker -> Handler]
      /\ \A u \in Worker : WellFormed(worker'[u])
  <2>1. v \in {"audit", "query", "publish", "ack"}
    BY DEF TurnAway
  <2>2. worker' = [worker EXCEPT ![w] = At(v, m, NoSig, "failure")]
    BY DEF TurnAway
  <2> QED
    BY Zenon, <2>1, <2>2, WorkerAt
<1>2. buf' \in [Msg -> Nat]
  BY DEF Take, TypeOK
<1> QED
  BY <1>1, <1>2 DEF TypeOK, TurnAway, Take, stores

\* claim_or_replay keeps the types.
LEMMA TypeClaim ==
  ASSUME TypeOK, NEW w \in Worker, NEW m \in Msg, Env[m].subject \in {"submit", "mint"},
         Take(w, m), ClaimOrReplay(w, m), UNCHANGED cache
  PROVE  TypeOK'
<1> DEFINE r == Home[w]
           k == DedupKeyOf(m)
           rec == dedup[r][k]
<1>0. buf' \in [Msg -> Nat] /\ r \in Replica /\ m # NoMsg
  BY StaticAssumption DEF Take, TypeOK
<1>1. CASE Blocks(m, rec)
  <2> DEFINE reply == IF rec.state = "Done" THEN "success" ELSE "failure"
  <2>1. rec.sig \in Sig \cup {NoSig}
    BY <1>0, <1>1, DedupKeyType DEF TypeOK, Blocks, DedupRecord
  <2>2. worker' = [worker EXCEPT ![w] = At("publish", m, rec.sig, reply)]
    BY <1>1 DEF ClaimOrReplay
  <2>3. reply \in {"success", "failure"}
    OBVIOUS
  <2>4. /\ worker' \in [Worker -> Handler]
        /\ \A u \in Worker : WellFormed(worker'[u])
    <3> HIDE DEF reply
    <3> QED BY Zenon, <2>1, <2>2, <2>3, WorkerAt
  <2>5. UNCHANGED <<dedup, starts>>
    BY <1>1 DEF ClaimOrReplay
  <2> QED
    BY <1>0, <2>4, <2>5 DEF TypeOK, Take
<1>2. CASE ~Blocks(m, rec)
  <2> DEFINE new == [state |-> "InFlight", ttl |-> ClaimTTL, sig |-> NoSig]
  <2>1. /\ worker' = [worker EXCEPT ![w] = Claiming(m)]
        /\ dedup' = IF Keyed(m) THEN [dedup EXCEPT ![r][k] = new] ELSE dedup
        /\ starts' = [starts EXCEPT ![m] = @ + 1]
    BY <1>2 DEF ClaimOrReplay
  <2>2. new \in DedupRecord
    BY DurationAssumption DEF DedupRecord
  <2>3. dedup' \in [Replica -> [DedupKey -> DedupRecord]]
    <3> HIDE DEF new
    <3> QED BY <1>0, <2>1, <2>2, DedupKeyType DEF TypeOK
  <2>4. /\ worker' \in [Worker -> Handler]
        /\ \A u \in Worker : WellFormed(worker'[u])
    BY Zenon, <1>0, <2>1, ClaimingType, WorkerUpdate
  <2>5. starts' \in [Msg -> Nat]
    BY <2>1 DEF TypeOK
  <2> QED
    BY <1>0, <2>3, <2>4, <2>5 DEF TypeOK, Take
<1> QED
  BY <1>1, <1>2

\* The tail of handle_submit and handle_mint keeps the types.
LEMMA TypeRecordOutcome ==
  ASSUME TypeOK, NEW w \in Worker, NEW ok \in BOOLEAN, worker[w].pc # "idle",
         Env[worker[w].msg].subject \in {"submit", "mint"},
         RecordOutcome(w, ok)
  PROVE  TypeOK'
<1> DEFINE h == worker[w]
           m == h.msg
           r == Home[w]
           k == DedupKeyOf(m)
           new == IF ok THEN [state |-> "Done", ttl |-> h.left, sig |-> h.sig]
                  ELSE NoRecord
<1>1. m \in Msg /\ r \in Replica /\ h.sig \in Sig \cup {NoSig} /\ h.left \in 0..ClaimTTL
  BY BusyMsg, StaticAssumption DEF TypeOK, Handler
<1>2. new \in DedupRecord
  BY <1>1, DurationAssumption DEF NoRecord, DedupRecord
<1>3. dedup' \in [Replica -> [DedupKey -> DedupRecord]]
  <2>1. dedup' = IF ~Keyed(m) THEN dedup ELSE [dedup EXCEPT ![r][k] = new]
    BY DEF RecordOutcome
  <2> HIDE DEF new, m
  <2> QED BY <1>1, <1>2, <2>1, DedupKeyType DEF TypeOK, m
<1>4. cache' \in [Replica -> SUBSET CacheKey]
  BY <1>1, EnvelopeFields DEF TypeOK, RecordOutcome, CacheKey
<1>5. /\ worker' \in [Worker -> Handler]
      /\ \A u \in Worker : WellFormed(worker'[u])
  <2>1. CASE ok
    <3>1. worker' = [worker EXCEPT ![w] = At("publish", m, h.sig, "success")]
      BY <2>1 DEF RecordOutcome
    <3> QED BY Zenon, <1>1, <3>1, WorkerAt
  <2>2. CASE ~ok
    <3>1. worker' = [worker EXCEPT ![w] = At("publish", m, NoSig, "failure")]
      BY <2>2 DEF RecordOutcome
    <3> QED BY Zenon, <1>1, <3>1, WorkerAt
  <2> QED BY <2>1, <2>2
<1> QED
  BY <1>3, <1>4, <1>5 DEF TypeOK, RecordOutcome, jetstream

\* sign_and_submit keeps the types and uses up an attempt.
LEMMA TypeSignAndSubmit ==
  ASSUME TypeOK, NEW w \in Worker, SignAndSubmit(w)
  PROVE  TypeOK'
<1> DEFINE h == worker[w]
           e == Env[h.msg]
<1>1. h \in Handler /\ WellFormed(h) /\ h.pc = "send" /\ h.msg \in Msg
  BY BusyMsg DEF TypeOK, SignAndSubmit
<1>2. PICK b \in (IF e.blockhash = NoHash THEN Blockhash ELSE {e.blockhash}),
           outcome \in {"ok", "refused", "unclear"} :
        /\ chain' = IF outcome = "refused" THEN chain
                    ELSE [chain EXCEPT ![<<e.tx, b>>] =
                            IF @ = "none" THEN "accepted" ELSE @]
        /\ worker' = [worker EXCEPT
             ![w].pc = "sent", ![w].tries = @ + 1,
             ![w].sig = Answer(outcome, <<e.tx, b>>)]
  BY Zenon DEF SignAndSubmit
<1>3. <<e.tx, b>> \in Sig
  BY <1>1, EnvelopeFields DEF Sig
<1>4. chain' \in [Sig -> {"none", "accepted", "landed"}]
  BY <1>2, <1>3 DEF TypeOK
<1> DEFINE sig == Answer(outcome, <<e.tx, b>>)
           new == [h EXCEPT !.pc = "sent", !.tries = @ + 1, !.sig = sig]
<1>5. sig \in Sig \cup {NoSig}
  BY <1>3 DEF Answer
<1>6. new \in Handler /\ WellFormed(new)
  <2> HIDE DEF sig, h
  <2>1. h.tries + 1 \in 0..MaxAttempts
    BY <1>1, DurationAssumption DEF Handler, WellFormed
  <2>2. "sent" \in PC
    BY DEF PC
  <2>3. new \in Handler
    BY Zenon, <1>1, <1>5, <2>1, <2>2 DEF Handler
  <2>4. new.pc = "sent" /\ new.msg = h.msg
    BY <1>1 DEF Handler
  <2>5. Env[h.msg].subject \in {"submit", "mint"} /\ h.msg # NoMsg
    BY <1>1 DEF WellFormed
  <2> QED
    BY <2>3, <2>4, <2>5 DEF WellFormed
<1>7. worker' = [worker EXCEPT ![w] = new]
  BY Zenon, <1>2 DEF TypeOK
<1>8. /\ worker' \in [Worker -> Handler]
      /\ \A u \in Worker : WellFormed(worker'[u])
  <2> HIDE DEF new
  <2> QED BY Zenon, <1>6, <1>7, WorkerUpdate
<1> QED
  BY <1>4, <1>8 DEF TypeOK, SignAndSubmit, jetstream, stores

\* The steps that only move a handler's pc.
LEMMA TypeMovePc ==
  ASSUME TypeOK, NEW w \in Worker, NEW pc \in PC,
         worker' = [worker EXCEPT ![w].pc = pc],
         WellFormed([worker[w] EXCEPT !.pc = pc]),
         UNCHANGED <<jetstream, stores, chain, results, starts, reconnects>>
  PROVE  TypeOK'
<1> DEFINE new == [worker[w] EXCEPT !.pc = pc]
<1>1. worker[w] \in Handler
  BY DEF TypeOK
<1>2. new \in Handler /\ worker' = [worker EXCEPT ![w] = new]
  BY Zenon, <1>1 DEF TypeOK, Handler
<1>3. /\ worker' \in [Worker -> Handler]
      /\ \A u \in Worker : WellFormed(worker'[u])
  <2>1. WellFormed(new)
    OBVIOUS
  <2> HIDE DEF new
  <2> QED BY Zenon, <1>2, <2>1, WorkerUpdate
<1> QED
  BY <1>3 DEF TypeOK, jetstream, stores

\* Every continuation of a handler keeps the types.
LEMMA TypeContinue ==
  ASSUME TypeOK, NEW w \in Worker, Continue(w) \/ ResolveConfirmation(w)
  PROVE  TypeOK'
<1> DEFINE h == worker[w]
<1>0. h \in Handler /\ WellFormed(h)
  BY DEF TypeOK
<1>1. CASE AuditRejection(w)
  <2>1. "publish" \in PC /\ WellFormed([h EXCEPT !.pc = "publish"])
    BY <1>0, <1>1 DEF AuditRejection, WellFormed, PC, Handler
  <2> QED BY Zenon, <1>1, <2>1, TypeMovePc DEF AuditRejection
<1>2. CASE RetrySubmit(w)
  <2>1. "send" \in PC /\ WellFormed([h EXCEPT !.pc = "send"])
    BY <1>0, <1>2 DEF RetrySubmit, MayRetry, WellFormed, PC, Handler
  <2> QED BY Zenon, <1>2, <2>1, TypeMovePc DEF RetrySubmit
<1>3. CASE FinishSubmit(w)
  <2>1. h.pc # "idle" /\ Env[h.msg].subject = "submit" /\ RecordOutcome(w, h.sig # NoSig)
    BY <1>3 DEF FinishSubmit
  <2> QED BY Zenon, <2>1, TypeRecordOutcome
<1>4. CASE FinishMintSend(w)
  <2>1. h.pc = "sent" /\ Env[h.msg].subject = "mint"
    BY <1>4 DEF FinishMintSend
  <2>2. CASE h.sig = NoSig
    <3>1. RecordOutcome(w, FALSE)
      BY Zenon, <1>4, <2>2 DEF FinishMintSend
    <3> QED BY Zenon, <2>1, <3>1, TypeRecordOutcome
  <2>3. CASE h.sig # NoSig
    <3>1. "confirm" \in PC /\ WellFormed([h EXCEPT !.pc = "confirm"])
      BY <1>0, <2>1, <2>3 DEF WellFormed, PC, Handler
    <3> QED BY Zenon, <1>4, <2>3, <3>1, TypeMovePc DEF FinishMintSend
  <2> QED BY <2>2, <2>3
<1>5. CASE QuerySignatureStatus(w)
  <2>1. PICK reply \in {"success", "failure"} :
          worker' = [worker EXCEPT ![w] = At("publish", h.msg, NoSig, reply)]
    BY Zenon, <1>5 DEF QuerySignatureStatus
  <2>2. h.msg \in Msg
    BY <1>5, BusyMsg DEF QuerySignatureStatus
  <2> QED
    BY Zenon, <1>5, <2>1, <2>2, WorkerAt DEF QuerySignatureStatus, TypeOK, jetstream, stores
<1>6. CASE PublishResult(w)
  <2>1. worker' = [worker EXCEPT ![w] = At("ack", h.msg, NoSig, "failure")]
    BY <1>6 DEF PublishResult
  <2>2. h.msg \in Msg
    BY <1>6, BusyMsg DEF PublishResult
  <2>3. results' \subseteq Result
    <3>1. [msg |-> h.msg, sig |-> h.sig] \in Result
      BY <1>0, <2>2 DEF Result, Handler
    <3>2. results' = results \/ results' = results \cup {[msg |-> h.msg, sig |-> h.sig]}
      BY <1>6 DEF PublishResult
    <3> QED BY <3>1, <3>2 DEF TypeOK
  <2>4. /\ worker' \in [Worker -> Handler]
        /\ \A u \in Worker : WellFormed(worker'[u])
    BY Zenon, <2>1, <2>2, WorkerAt
  <2> QED
    BY <1>6, <2>3, <2>4 DEF PublishResult, TypeOK, jetstream, stores
<1>7. CASE \E arrives \in BOOLEAN : Ack(w, arrives)
  <2>1. PICK arrives \in BOOLEAN : Ack(w, arrives)
    BY <1>7
  <2>2. h.msg \in Msg
    BY <2>1, BusyMsg DEF Ack
  <2>3. stream' \in [Msg -> {"absent", "pending", "settled"}]
    BY <2>1, <2>2 DEF Ack, TypeOK
  <2> QED
    BY <2>1, <2>3, IdleType, WorkerUpdate DEF Ack, TypeOK, stores
<1>8. CASE ResolveConfirmation(w)
  <2>1. PICK ok \in BOOLEAN : RecordOutcome(w, ok)
    BY <1>8 DEF ResolveConfirmation
  <2>2. h.pc # "idle" /\ Env[h.msg].subject \in {"submit", "mint"}
    BY <1>0, <1>8 DEF ResolveConfirmation, WellFormed
  <2> QED BY <2>1, <2>2, TypeRecordOutcome
<1> QED
  BY <1>1, <1>2, <1>3, <1>4, <1>5, <1>6, <1>7, <1>8 DEF Continue

\* Every handler keeps the types up to its first await.
LEMMA TypeHandle ==
  ASSUME TypeOK, NEW w \in Worker, NEW m \in Msg, Handle(w, m)
  PROVE  TypeOK'
<1>1. CASE HandleSubmit(w, m)
  <2>1. Take(w, m) /\ Env[m].subject = "submit"
    BY <1>1 DEF HandleSubmit
  <2>2. CASE TurnAway(w, m, ScreenSubmit(Home[w], m))
    BY <2>1, <2>2, ScreenVerdicts, TypeTurnAway
  <2>3. CASE ClaimOrReplay(w, m) /\ UNCHANGED cache
    BY <2>1, <2>3, TypeClaim
  <2> QED BY <1>1, <2>2, <2>3 DEF HandleSubmit
<1>2. CASE HandleMint(w, m)
  <2>1. Take(w, m) /\ Env[m].subject = "mint"
    BY <1>2 DEF HandleMint
  <2>2. CASE TurnAway(w, m, ScreenMint(Home[w], m))
    BY <2>1, <2>2, ScreenVerdicts, TypeTurnAway
  <2>3. CASE ClaimOrReplay(w, m) /\ UNCHANGED cache
    BY <2>1, <2>3, TypeClaim
  <2> QED BY <1>2, <2>2, <2>3 DEF HandleMint
<1>3. CASE HandleCancel(w, m)
  <2>1. Take(w, m) /\ buf' \in [Msg -> Nat] /\ Home[w] \in Replica
    BY <1>3, StaticAssumption DEF HandleCancel, Take, TypeOK
  <2>2. CASE TurnAway(w, m, ScreenCancel(Home[w], m))
    BY <2>1, <2>2, ScreenVerdicts, TypeTurnAway
  <2>3. CASE /\ cache' = [cache EXCEPT ![Home[w]] = @ \cup Marks(m)]
             /\ worker' = [worker EXCEPT ![w] = At("publish", m, NoSig, "success")]
             /\ UNCHANGED <<dedup, starts>>
    <3>1. /\ worker' \in [Worker -> Handler]
          /\ \A u \in Worker : WellFormed(worker'[u])
      BY Zenon, <2>3, WorkerAt
    <3>2. Marks(m) \subseteq CacheKey
      BY EnvelopeFields DEF Marks, CacheKey
    <3>3. cache' \in [Replica -> SUBSET CacheKey]
      BY <2>1, <2>3, <3>2 DEF TypeOK
    <3> QED BY <2>1, <2>3, <3>1, <3>3 DEF TypeOK, Take
  <2> QED BY <1>3, <2>2, <2>3 DEF HandleCancel
<1>4. CASE HandleStatus(w, m)
  <2>0. Take(w, m)
    BY <1>4 DEF HandleStatus
  <2>1. Take(w, m) /\ buf' \in [Msg -> Nat]
    BY <2>0 DEF Take, TypeOK
  <2>2. CASE TurnAway(w, m, ScreenStatus(m))
    BY <2>1, <2>2, ScreenVerdicts, TypeTurnAway
  <2>3. CASE /\ worker' = [worker EXCEPT ![w] = At("query", m, NoSig, "failure")]
             /\ UNCHANGED <<stores, starts>>
    <3>1. /\ worker' \in [Worker -> Handler]
          /\ \A u \in Worker : WellFormed(worker'[u])
      BY Zenon, <2>3, WorkerAt
    <3> QED BY <2>1, <2>3, <3>1 DEF TypeOK, Take, stores
  <2> QED BY <1>4, <2>2, <2>3 DEF HandleStatus
<1>5. CASE HandleUnknownSubject(w, m)
  BY <1>5, TypeTurnAway DEF HandleUnknownSubject
<1> QED
  BY <1>1, <1>2, <1>3, <1>4, <1>5 DEF Handle

\* Running timers down keeps them within their durations.
LEMMA TypeTick == TypeOK /\ Tick => TypeOK'
<1> SUFFICES ASSUME TypeOK, Tick PROVE TypeOK'
  OBVIOUS
<1>1. \A n \in Nat : Less(n) \in Nat /\ Less(n) <= n
  BY DEF Less
<1>2. age' \in [Msg -> 0..(StaleAfter + 1)]
  BY DurationAssumption DEF TypeOK, Tick
<1>3. lease' \in [Msg -> Nat] /\ \A m \in Msg : lease'[m] <= LeaseOf(m)
  BY <1>1, EnvelopeFields DEF TypeOK, Tick
<1>4. ASSUME NEW w \in Worker
      PROVE  worker'[w] \in Handler /\ WellFormed(worker'[w])
  <2>1. worker[w] \in Handler /\ WellFormed(worker[w])
    BY DEF TypeOK
  <2>2. worker'[w] = [worker[w] EXCEPT !.left = Less(@)]
    BY DEF Tick
  <2>3. Less(worker[w].left) \in 0..ClaimTTL
    BY <1>1, <2>1, DurationAssumption DEF Handler
  <2> QED
    BY <2>1, <2>2, <2>3 DEF Handler, WellFormed
<1>5. worker' \in [Worker -> Handler]
  <2>1. worker' = [w \in Worker |-> worker'[w]]
    BY DEF Tick
  <2> QED BY <1>4, <2>1
<1>6. dedup' \in [Replica -> [DedupKey -> DedupRecord]]
  <2>1. ASSUME NEW rec \in DedupRecord
        PROVE  [rec EXCEPT !.ttl = Less(@)] \in DedupRecord
    <3>1. Less(rec.ttl) \in 0..ClaimTTL
      BY <1>1, DurationAssumption DEF DedupRecord
    <3> QED BY <3>1 DEF DedupRecord
  <2> QED BY <2>1 DEF TypeOK, Tick
<1> QED
  BY <1>2, <1>3, <1>4, <1>5, <1>6 DEF TypeOK, Tick

\* JetStream, cleanup, reconnects and the cluster keep the types.
LEMMA TypeRest ==
  ASSUME TypeOK,
         \/ \E m \in Msg : PublishEnvelope(m) \/ Pull(m)
         \/ \E r \in Replica : Cleanup(r) \/ Reconnect(r)
         \/ \E s \in Sig : Land(s)
  PROVE  TypeOK'
<1>0. NoRecord \in DedupRecord
  BY DurationAssumption DEF NoRecord, DedupRecord
<1>1. ASSUME NEW m \in Msg, PublishEnvelope(m) PROVE TypeOK'
  BY <1>1 DEF PublishEnvelope, TypeOK, stores
<1>2. ASSUME NEW m \in Msg, Pull(m) PROVE TypeOK'
  BY <1>2, EnvelopeFields DEF Pull, TypeOK, stores
<1>3. ASSUME NEW r \in Replica, Cleanup(r) PROVE TypeOK'
  <2>1. dedup' \in [Replica -> [DedupKey -> DedupRecord]]
    BY <1>0, <1>3 DEF Cleanup, TypeOK
  <2> QED BY <1>3, <2>1 DEF Cleanup, TypeOK, jetstream
<1>4. ASSUME NEW r \in Replica, Reconnect(r) PROVE TypeOK'
  <2>1. /\ worker' \in [Worker -> Handler]
        /\ \A w \in Worker : WellFormed(worker'[w])
    BY <1>4, IdleType DEF Reconnect, TypeOK
  <2>2. dedup' \in [Replica -> [DedupKey -> DedupRecord]]
    BY <1>0, <1>4 DEF Reconnect, TypeOK
  <2>3. buf' \in [Msg -> Nat] /\ cache' \in [Replica -> SUBSET CacheKey]
    BY <1>4 DEF Reconnect, TypeOK
  <2>4. reconnects' \in 0..MaxReconnects
    BY <1>4, DurationAssumption DEF Reconnect, TypeOK
  <2> QED BY <1>4, <2>1, <2>2, <2>3, <2>4 DEF Reconnect, TypeOK
<1>5. ASSUME NEW s \in Sig, Land(s) PROVE TypeOK'
  BY <1>5 DEF Land, TypeOK, jetstream, stores
<1> QED
  BY <1>1, <1>2, <1>3, <1>4, <1>5

\* Every step of the consumer keeps the types.
LEMMA TypeNext == TypeOK /\ [Next]_vars => TypeOK'
<1> SUFFICES ASSUME TypeOK, [Next]_vars PROVE TypeOK'
  OBVIOUS
<1>1. CASE UNCHANGED vars
  BY <1>1 DEF TypeOK, vars
<1>2. CASE Next
  BY <1>2, TypeHandle, TypeContinue, TypeSignAndSubmit, TypeRest, TypeTick DEF Next
<1> QED
  BY <1>1, <1>2

\* Every variable of the consumer model keeps its type: no countdown leaves the
\* range it was started in, and the Retry loop of handle_submit never runs
\* sign_and_submit more than MaxAttempts times.
THEOREM TypeCorrect == Spec => []TypeOK
BY TypeInit, TypeNext, PTL DEF Spec

=============================================================================
