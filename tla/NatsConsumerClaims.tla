------------------------ MODULE NatsConsumerClaims ------------------------
(***************************************************************************)
(* The claims of dedup_store are exclusive and its Done records are kept;  *)
(* it implements ClaimLedger.  For all values of the constants, under      *)
(* Timely.                                                                 *)
(***************************************************************************)
EXTENDS NatsConsumerTypes, ClaimRefinement

-----------------------------------------------------------------------------
(* Claims.  ClaimExclusive is not inductive: two handlers could meet on a  *)
(* key whose record is gone.  ClaimHeld says the record is always there.   *)

ClaimInv == ClaimHeld /\ ClaimExclusive

\* Steps that leave the dedup_store alone and start no signing.
LEMMA ClaimFrame ==
  ASSUME ClaimInv, dedup' = dedup,
         \A u \in Worker : Signing(u)' => /\ Signing(u)
                                          /\ worker'[u].msg = worker[u].msg
                                          /\ worker'[u].left = worker[u].left
  PROVE  ClaimInv'
<1>1. ClaimHeld'
  BY Zenon DEF ClaimInv, ClaimHeld, Keyed, DedupKeyOf
<1>2. ClaimExclusive'
  BY DEF ClaimInv, ClaimExclusive, Keyed, DedupKeyOf
<1> QED
  BY <1>1, <1>2 DEF ClaimInv

\* A slot that gets a record outside the signing phase.
LEMMA ClaimQuiet ==
  ASSUME TypeOK, ClaimInv, dedup' = dedup, NEW w \in Worker, NEW h,
         worker' = [worker EXCEPT ![w] = h], h.pc \notin {"send", "sent", "confirm"}
  PROVE  ClaimInv'
<1>1. \A u \in Worker : Signing(u)' => u # w /\ worker'[u] = worker[u] /\ Signing(u)
  BY DEF TypeOK, Signing
<1> QED
  BY <1>1, ClaimFrame

\* The pc of a handler that holds no claim.
LEMMA AtPc ==
  ASSUME NEW pc, NEW m, NEW sig, NEW reply
  PROVE  At(pc, m, sig, reply).pc = pc
BY DEF At

\* claim_or_replay: the holder of an unexpired claim blocks everyone else.
LEMMA ClaimByClaim ==
  ASSUME TypeOK, ClaimInv, NEW w \in Worker, NEW m \in Msg,
         Env[m].subject \in {"submit", "mint"}, worker[w].pc = "idle",
         ClaimOrReplay(w, m)
  PROVE  ClaimInv'
<1> DEFINE r == Home[w]
           k == DedupKeyOf(m)
           rec == dedup[r][k]
<1>1. CASE Blocks(m, rec)
  <2> DEFINE h == At("publish", m, rec.sig, IF rec.state = "Done" THEN "success" ELSE "failure")
  <2>1. worker' = [worker EXCEPT ![w] = h] /\ dedup' = dedup
    BY <1>1 DEF ClaimOrReplay
  <2>2. h.pc = "publish"
    BY AtPc
  <2> HIDE DEF h
  <2> QED BY Zenon, <2>1, <2>2, ClaimQuiet
<1>2. CASE ~Blocks(m, rec)
  <2> DEFINE new == [state |-> "InFlight", ttl |-> ClaimTTL, sig |-> NoSig]
  <2>1. /\ worker' = [worker EXCEPT ![w] = Claiming(m)]
        /\ dedup' = IF Keyed(m) THEN [dedup EXCEPT ![r][k] = new] ELSE dedup
    BY <1>2 DEF ClaimOrReplay
  <2>2. /\ worker'[w].msg = m /\ worker'[w].left = ClaimTTL /\ r \in Replica
        /\ \A u \in Worker \ {w} : worker'[u] = worker[u] /\ (Signing(u)' <=> Signing(u))
    BY Zenon, <2>1, StaticAssumption DEF TypeOK, Claiming, Signing
  <2>3. ASSUME NEW u \in Worker \ {w}, Signing(u), Keyed(worker[u].msg), Keyed(m),
               Home[u] = r
        PROVE  DedupKeyOf(worker[u].msg) # k
    <3>1. SUFFICES ASSUME DedupKeyOf(worker[u].msg) = k PROVE FALSE
      OBVIOUS
    <3>2. rec.state = "InFlight" /\ rec.ttl > 0
      BY <2>3, <3>1 DEF ClaimInv, ClaimHeld
    <3> QED BY <1>2, <2>3, <3>2 DEF Blocks
  <2>4. Keyed(m) => dedup'[r][k] = new
    BY <2>1, <2>2, DedupKeyType DEF TypeOK
  <2>5. ClaimHeld'
    <3> SUFFICES ASSUME NEW u \in Worker, Signing(u)', Keyed(worker'[u].msg)
                 PROVE  LET c == dedup'[Home[u]][DedupKeyOf(worker'[u].msg)] IN
                        c.state = "InFlight" /\ c.ttl = worker'[u].left /\ c.ttl > 0
      BY Zenon DEF ClaimHeld, Keyed, DedupKeyOf
    <3>1. CASE u = w
      BY <2>2, <2>4, <3>1, DurationAssumption
    <3>2. CASE u # w
      <4>1. Signing(u) /\ worker'[u] = worker[u]
        BY <2>2, <3>2
      <4>2. LET c == dedup[Home[u]][DedupKeyOf(worker[u].msg)] IN
            c.state = "InFlight" /\ c.ttl = worker[u].left /\ c.ttl > 0
        BY <4>1 DEF ClaimInv, ClaimHeld
      <4>3. dedup'[Home[u]][DedupKeyOf(worker[u].msg)] =
              dedup[Home[u]][DedupKeyOf(worker[u].msg)]
        <5>1. Home[u] \in Replica
          BY StaticAssumption
        <5> HIDE DEF new, k
        <5> QED BY <2>1, <2>2, <2>3, <3>2, <4>1, <5>1 DEF TypeOK
      <4> QED BY <4>1, <4>2, <4>3
    <3> QED BY <3>1, <3>2
  <2>6. ClaimExclusive'
    <3> SUFFICES ASSUME NEW u \in Worker, NEW v \in Worker, u # v, Home[u] = Home[v],
                        Signing(u)', Signing(v)', Keyed(worker'[u].msg)
                 PROVE  DedupKeyOf(worker'[u].msg) # DedupKeyOf(worker'[v].msg)
      BY DEF ClaimExclusive, Keyed, DedupKeyOf
    <3>1. CASE u # w /\ v # w
      BY <2>2, <3>1 DEF ClaimInv, ClaimExclusive
    <3>2. CASE u = w
      <4>1. SUFFICES ASSUME DedupKeyOf(m) = DedupKeyOf(worker[v].msg) PROVE FALSE
        BY <2>2, <3>2
      <4>2. Keyed(worker[v].msg) /\ Keyed(m)
        BY <2>2, <3>2, <4>1 DEF Keyed, DedupKeyOf
      <4> QED BY <2>2, <2>3, <3>2, <4>1, <4>2
    <3>3. CASE v = w
      <4>1. SUFFICES ASSUME DedupKeyOf(m) = DedupKeyOf(worker[u].msg) PROVE FALSE
        BY <2>2, <3>3
      <4>2. Keyed(worker[u].msg) /\ Keyed(m)
        BY <2>2, <3>3, <4>1 DEF Keyed, DedupKeyOf
      <4> QED BY <2>2, <2>3, <3>3, <4>1, <4>2
    <3> QED BY <3>1, <3>2, <3>3
  <2> QED BY <2>5, <2>6 DEF ClaimInv
<1> QED
  BY <1>1, <1>2

\* The end of an attempt touches only the record its handler holds.
LEMMA ClaimByOutcome ==
  ASSUME TypeOK, ClaimInv, NEW w \in Worker, NEW ok \in BOOLEAN, Signing(w),
         RecordOutcome(w, ok)
  PROVE  ClaimInv'
<1> DEFINE m == worker[w].msg
           r == Home[w]
           k == DedupKeyOf(m)
<1>1. ~Signing(w)' /\ \A u \in Worker \ {w} : worker'[u] = worker[u]
  BY AtPc DEF RecordOutcome, TypeOK, Signing
<1>2. ASSUME NEW u \in Worker, Signing(u)', Keyed(worker[u].msg)
      PROVE  dedup'[Home[u]][DedupKeyOf(worker[u].msg)] =
               dedup[Home[u]][DedupKeyOf(worker[u].msg)]
  <2>1. u # w /\ Signing(u)
    BY <1>1, <1>2 DEF Signing
  <2>2. Home[u] # r \/ DedupKeyOf(worker[u].msg) # k
    BY <1>2, <2>1 DEF ClaimInv, ClaimExclusive
  <2>3. \E new : dedup' = IF ~Keyed(m) THEN dedup ELSE [dedup EXCEPT ![r][k] = new]
    BY Zenon DEF RecordOutcome
  <2>4. r \in Replica /\ Home[u] \in Replica
    BY StaticAssumption
  <2> HIDE DEF k, m
  <2> QED BY <2>2, <2>3, <2>4 DEF TypeOK
<1>3. ClaimHeld'
  <2> SUFFICES ASSUME NEW u \in Worker, Signing(u)', Keyed(worker'[u].msg)
               PROVE  LET c == dedup'[Home[u]][DedupKeyOf(worker'[u].msg)] IN
                      c.state = "InFlight" /\ c.ttl = worker'[u].left /\ c.ttl > 0
    BY Zenon DEF ClaimHeld, Keyed, DedupKeyOf
  <2>1. worker'[u] = worker[u] /\ Signing(u)
    BY <1>1 DEF Signing
  <2> QED BY <1>2, <2>1 DEF ClaimInv, ClaimHeld
<1>4. ClaimExclusive'
  BY <1>1 DEF ClaimInv, ClaimExclusive, Signing, Keyed, DedupKeyOf
<1> QED
  BY <1>3, <1>4 DEF ClaimInv

\* A handler that starts (turned away, replayed, refused or claiming) keeps
\* the claim invariant.
LEMMA ClaimHandle ==
  ASSUME TypeOK, ClaimInv, NEW w \in Worker, NEW m \in Msg, Handle(w, m)
  PROVE  ClaimInv'
<1>1. ASSUME NEW v \in {"ack", "audit", "publish", "accept"}, TurnAway(w, m, v)
      PROVE  ClaimInv'
  <2>1. worker' = [worker EXCEPT ![w] = At(v, m, NoSig, "failure")] /\ dedup' = dedup
    BY <1>1 DEF TurnAway, stores
  <2>2. At(v, m, NoSig, "failure").pc \notin {"send", "sent", "confirm"}
    BY AtPc
  <2> QED BY Zenon, <2>1, <2>2, ClaimQuiet
<1>2. worker[w].pc = "idle"
  BY DEF Handle, HandleSubmit, HandleMint, HandleCancel, HandleStatus,
         HandleUnknownSubject, Take
<1>3. CASE HandleSubmit(w, m)
  BY <1>1, <1>2, <1>3, ScreenVerdicts, ClaimByClaim DEF HandleSubmit
<1>4. CASE HandleMint(w, m)
  BY <1>1, <1>2, <1>4, ScreenVerdicts, ClaimByClaim DEF HandleMint
<1>5. CASE HandleCancel(w, m)
  <2>1. CASE TurnAway(w, m, ScreenCancel(Home[w], m))
    BY <1>1, <2>1, ScreenVerdicts
  <2>2. CASE worker' = [worker EXCEPT ![w] = At("publish", m, NoSig, "success")] /\ dedup' = dedup
    <3>1. At("publish", m, NoSig, "success").pc \notin {"send", "sent", "confirm"}
      BY AtPc
    <3> QED BY Zenon, <2>2, <3>1, ClaimQuiet
  <2> QED BY <1>5, <2>1, <2>2 DEF HandleCancel
<1>6. CASE HandleStatus(w, m)
  <2>1. CASE TurnAway(w, m, ScreenStatus(m))
    BY <1>1, <2>1, ScreenVerdicts
  <2>2. CASE worker' = [worker EXCEPT ![w] = At("query", m, NoSig, "failure")] /\ dedup' = dedup
    <3>1. At("query", m, NoSig, "failure").pc \notin {"send", "sent", "confirm"}
      BY AtPc
    <3> QED BY Zenon, <2>2, <3>1, ClaimQuiet
  <2> QED BY <1>6, <2>1, <2>2 DEF HandleStatus, stores
<1>7. CASE HandleUnknownSubject(w, m)
  BY <1>1, <1>7 DEF HandleUnknownSubject
<1> QED
  BY <1>3, <1>4, <1>5, <1>6, <1>7 DEF Handle

\* A handler that continues past an await keeps the claim invariant.
LEMMA ClaimContinue ==
  ASSUME TypeOK, ClaimInv, NEW w \in Worker,
         Continue(w) \/ SignAndSubmit(w) \/ ResolveConfirmation(w)
  PROVE  ClaimInv'
<1>0. worker[w] \in Handler
  BY DEF TypeOK
<1>1. CASE AuditRejection(w) \/ QuerySignatureStatus(w) \/ PublishResult(w)
           \/ \E arrives \in BOOLEAN : Ack(w, arrives)
  <2>1. dedup' = dedup /\ worker'[w].pc \in {"publish", "ack", "idle"}
        /\ \A u \in Worker \ {w} : worker'[u] = worker[u]
    BY <1>0, <1>1 DEF AuditRejection, QuerySignatureStatus, PublishResult, Ack, At, Idle,
                      stores, TypeOK, Handler
  <2> QED BY <2>1, ClaimFrame DEF Signing
<1>2. CASE RetrySubmit(w)
  <2>1. dedup' = dedup /\ Signing(w) /\ worker'[w].msg = worker[w].msg
        /\ worker'[w].left = worker[w].left /\ \A u \in Worker \ {w} : worker'[u] = worker[u]
    BY <1>0, <1>2 DEF RetrySubmit, stores, TypeOK, Handler, Signing
  <2> QED BY <2>1, ClaimFrame DEF Signing
<1>3. CASE FinishSubmit(w)
  BY Zenon, <1>3, ClaimByOutcome DEF FinishSubmit, Signing
<1>4. CASE FinishMintSend(w)
  <2>1. CASE worker[w].sig = NoSig
    BY Zenon, <1>4, <2>1, ClaimByOutcome DEF FinishMintSend, Signing
  <2>2. CASE worker[w].sig # NoSig
    <3>1. dedup' = dedup /\ Signing(w) /\ worker'[w].msg = worker[w].msg
          /\ worker'[w].left = worker[w].left /\ \A u \in Worker \ {w} : worker'[u] = worker[u]
      <4>1. /\ worker' = [worker EXCEPT ![w].pc = "confirm"]
            /\ dedup' = dedup /\ worker[w].pc = "sent"
        BY Zenon, <1>4, <2>2 DEF FinishMintSend, stores
      <4> QED BY <1>0, <4>1 DEF TypeOK, Handler, Signing
    <3> QED BY <3>1, ClaimFrame DEF Signing
  <2> QED BY <2>1, <2>2
<1>5. CASE SignAndSubmit(w)
  <2>1. dedup' = dedup /\ Signing(w) /\ worker'[w].msg = worker[w].msg
        /\ worker'[w].left = worker[w].left /\ \A u \in Worker \ {w} : worker'[u] = worker[u]
    <3>1. PICK sig : worker' = [worker EXCEPT ![w].pc = "sent", ![w].tries = @ + 1, ![w].sig = sig]
      BY ZenonT(30), <1>5 DEF SignAndSubmit
    <3>2. dedup' = dedup /\ worker[w].pc = "send"
      BY Zenon, <1>5 DEF SignAndSubmit, stores
    <3> QED BY <1>0, <3>1, <3>2 DEF TypeOK, Handler, Signing
  <2> QED BY <2>1, ClaimFrame DEF Signing
<1>6. CASE ResolveConfirmation(w)
  BY <1>6, ClaimByOutcome DEF ResolveConfirmation, Signing
<1> QED
  BY <1>1, <1>2, <1>3, <1>4, <1>5, <1>6 DEF Continue

\* Under Timely no claim runs out while its handler signs.
LEMMA ClaimTick ==
  ASSUME TypeOK, ClaimInv, Timely, Tick
  PROVE  ClaimInv'
<1>1. \A u \in Worker : /\ worker'[u].msg = worker[u].msg /\ worker'[u].pc = worker[u].pc
                        /\ worker'[u].left = Less(worker[u].left)
  <2> TAKE u \in Worker
  <2>1. worker[u] \in Handler /\ worker'[u] = [worker[u] EXCEPT !.left = Less(@)]
    BY DEF TypeOK, Tick
  <2> QED BY <2>1 DEF Handler
<1>2. ClaimHeld'
  <2> SUFFICES ASSUME NEW u \in Worker, Signing(u)', Keyed(worker'[u].msg)
               PROVE  LET c == dedup'[Home[u]][DedupKeyOf(worker'[u].msg)] IN
                      c.state = "InFlight" /\ c.ttl = worker'[u].left /\ c.ttl > 0
    BY Zenon DEF ClaimHeld, Keyed, DedupKeyOf
  <2> DEFINE r == Home[u]
             k == DedupKeyOf(worker[u].msg)
  <2>1. Signing(u) /\ Keyed(worker[u].msg) /\ worker[u] \in Handler /\ WellFormed(worker[u])
    BY <1>1 DEF Signing, TypeOK
  <2>2. worker[u].msg \in Msg /\ Env[worker[u].msg].subject \in {"submit", "mint"}
    BY <2>1, BusyMsg DEF Signing, WellFormed
  <2>3. r \in Replica /\ k \in DedupKey
    BY <2>1, <2>2, StaticAssumption, DedupKeyType
  <2>4. dedup[r][k] \in DedupRecord /\ dedup'[r][k] = [dedup[r][k] EXCEPT !.ttl = Less(@)]
    BY ZenonT(30), <2>3 DEF TypeOK, Tick
  <2>5. dedup[r][k].state = "InFlight" /\ dedup[r][k].ttl = worker[u].left
    BY <2>1 DEF ClaimInv, ClaimHeld
  <2>6. worker[u].left \in Nat /\ worker[u].left > 1
    BY <2>1, DurationAssumption DEF Tick, Handler
  <2>7. dedup'[r][k].state = "InFlight" /\ dedup'[r][k].ttl = Less(worker[u].left)
    BY <2>4, <2>5 DEF DedupRecord
  <2> QED BY <1>1, <2>6, <2>7 DEF Less
<1>3. ClaimExclusive'
  BY <1>1 DEF ClaimInv, ClaimExclusive, Signing, Keyed, DedupKeyOf
<1> QED
  BY <1>2, <1>3 DEF ClaimInv

\* JetStream, cleanup, reconnects and the cluster keep the claim invariant.
LEMMA ClaimRest ==
  ASSUME TypeOK, ClaimInv,
         \/ \E m \in Msg : PublishEnvelope(m) \/ Pull(m)
         \/ \E r \in Replica : Cleanup(r) \/ Reconnect(r)
         \/ \E s \in Sig : Land(s)
  PROVE  ClaimInv'
<1>1. ASSUME worker' = worker, dedup' = dedup PROVE ClaimInv'
  BY <1>1, ClaimFrame DEF Signing
<1>2. ASSUME NEW q \in Replica, Cleanup(q) PROVE ClaimInv'
  <2>1. worker' = worker
    BY <1>2 DEF Cleanup
  <2>2. ASSUME NEW u \in Worker, Signing(u), Keyed(worker[u].msg)
        PROVE  dedup'[Home[u]][DedupKeyOf(worker[u].msg)] =
                 dedup[Home[u]][DedupKeyOf(worker[u].msg)]
    <3>1. worker[u].msg \in Msg /\ Env[worker[u].msg].subject \in {"submit", "mint"}
      BY <2>2, BusyMsg DEF Signing, WellFormed, TypeOK
    <3>2. DedupKeyOf(worker[u].msg) \in DedupKey /\ Home[u] \in Replica
      BY <2>2, <3>1, StaticAssumption, DedupKeyType
    <3>3. dedup[Home[u]][DedupKeyOf(worker[u].msg)].ttl # 0
      <4>1. dedup[Home[u]][DedupKeyOf(worker[u].msg)].ttl > 0
        BY Zenon, <2>2 DEF ClaimInv, ClaimHeld
      <4> QED BY <4>1
    <3> DEFINE k == DedupKeyOf(worker[u].msg)
    <3> HIDE DEF k
    <3>4. dedup' = [dedup EXCEPT ![q] = [l \in DedupKey |->
                      IF @[l].ttl = 0 THEN NoRecord ELSE @[l]]]
      BY ZenonT(30), <1>2 DEF Cleanup
    <3>5. k \in DedupKey /\ Home[u] \in Replica /\ dedup[Home[u]][k].ttl # 0
      BY <3>2, <3>3 DEF k
    <3>6. dedup'[Home[u]][k] = dedup[Home[u]][k]
      BY <3>4, <3>5 DEF TypeOK
    <3> QED BY <3>6 DEF k
  <2>3. ClaimHeld'
    BY ZenonT(30), <2>1, <2>2 DEF ClaimInv, ClaimHeld, Signing, Keyed, DedupKeyOf
  <2>4. ClaimExclusive'
    BY <2>1 DEF ClaimInv, ClaimExclusive, Signing, Keyed, DedupKeyOf
  <2> QED BY <2>3, <2>4 DEF ClaimInv
<1>3. ASSUME NEW q \in Replica, Reconnect(q) PROVE ClaimInv'
  <2>1. \A u \in Worker : Signing(u)' => Home[u] # q /\ worker'[u] = worker[u] /\ Signing(u)
    BY <1>3 DEF Reconnect, Signing, Idle, At
  <2>2. \A u \in Worker : Home[u] # q => dedup'[Home[u]] = dedup[Home[u]]
    BY ZenonT(30), <1>3, StaticAssumption DEF Reconnect, TypeOK
  <2>3. ClaimHeld'
    <3> SUFFICES ASSUME NEW u \in Worker, Signing(u)', Keyed(worker'[u].msg)
                 PROVE  LET c == dedup'[Home[u]][DedupKeyOf(worker'[u].msg)] IN
                        c.state = "InFlight" /\ c.ttl = worker'[u].left /\ c.ttl > 0
      BY Zenon DEF ClaimHeld, Keyed, DedupKeyOf
    <3> QED BY <2>1, <2>2 DEF ClaimInv, ClaimHeld
  <2>4. ClaimExclusive'
    <3> SUFFICES ASSUME NEW u \in Worker, NEW v \in Worker, u # v, Home[u] = Home[v],
                        Signing(u)', Signing(v)', Keyed(worker'[u].msg)
                 PROVE  DedupKeyOf(worker'[u].msg) # DedupKeyOf(worker'[v].msg)
      BY DEF ClaimExclusive, Keyed, DedupKeyOf
    <3> QED BY <2>1 DEF ClaimInv, ClaimExclusive
  <2> QED BY <2>3, <2>4 DEF ClaimInv
<1> QED
  BY <1>1, <1>2, <1>3 DEF PublishEnvelope, Pull, Land, stores

\* No handler runs initially.
LEMMA ClaimInit == Init => ClaimInv
BY DEF Init, ClaimInv, ClaimHeld, ClaimExclusive, Signing, Idle, At

\* Every step of the consumer keeps the claim invariant, under Timely.
LEMMA ClaimNext == TypeOK /\ Timely /\ ClaimInv /\ [Next]_vars => ClaimInv'
<1> SUFFICES ASSUME TypeOK, Timely, ClaimInv, [Next]_vars PROVE ClaimInv'
  OBVIOUS
<1>1. CASE UNCHANGED vars
  BY <1>1, ClaimFrame DEF vars, Signing
<1>2. CASE Next
  BY <1>2, ClaimHandle, ClaimContinue, ClaimRest, ClaimTick DEF Next
<1> QED
  BY <1>1, <1>2

\* The claim invariant holds throughout, under Timely.
LEMMA ClaimInductive == ASSUME Timely PROVE Spec => []ClaimInv
<1>1. TypeOK /\ ClaimInv /\ [Next]_vars => ClaimInv'
  BY ClaimNext
<1> QED
  BY <1>1, TypeCorrect, ClaimInit, PTL DEF Spec

\* As long as no handler outlives its claim, a handler that signs under an
\* idempotency key holds the InFlight record that claim_or_replay inserted.
THEOREM ClaimsHeld == ASSUME Timely PROVE Spec => []ClaimHeld
<1>1. ClaimInv => ClaimHeld
  BY DEF ClaimInv
<1> QED
  BY <1>1, ClaimInductive, PTL

\* As long as no handler outlives its claim, no two handlers of a replica sign
\* for the same idempotency key at once, through redeliveries, re-sends,
\* failures, cleanups and restarts.
THEOREM ClaimsExclusive == ASSUME Timely PROVE Spec => []ClaimExclusive
<1>1. ClaimInv => ClaimExclusive
  BY DEF ClaimInv
<1> QED
  BY <1>1, ClaimInductive, PTL

-----------------------------------------------------------------------------
(* Done records, and the claim ledger.  Both need only to know what a step *)
(* does to the records and to the signers of a key.                        *)

\* The record of k at r is Done and claim_or_replay still replays it.
Recorded(r, k) == dedup[r][k].state = "Done" /\ dedup[r][k].ttl > 0

\* Handler u signs for key k.
SignsFor(u, k) == Signing(u) /\ Keyed(worker[u].msg) /\ DedupKeyOf(worker[u].msg) = k

\* Nothing changes for the ledger: neither a record nor who signs for a key.
QuietStep ==
  /\ dedup' = dedup
  /\ \A u \in Worker, k \in DedupKey : SignsFor(u, k)' <=> SignsFor(u, k)

\* claim_or_replay inserts an InFlight record for a handler that was idle.
ClaimStep(w, k) ==
  /\ ~Signing(w) /\ ~Recorded(Home[w], k)
  /\ \A u \in Worker : Home[u] = Home[w] => ~SignsFor(u, k)
  /\ \E rec : /\ dedup' = [dedup EXCEPT ![Home[w]][k] = rec]
              /\ rec.state = "InFlight"
  /\ SignsFor(w, k)'
  /\ \A u \in Worker \ {w} : worker'[u] = worker[u]

\* The holder of k's claim ends its attempt, with or without an effect.
OutcomeStep(w, k, ok) ==
  /\ SignsFor(w, k) /\ ~Signing(w)'
  /\ \E rec : /\ dedup' = [dedup EXCEPT ![Home[w]][k] = rec]
              /\ ok => rec.state = "Done" /\ rec.ttl > 0
              /\ ~ok => rec.state = "Absent"
  /\ \A u \in Worker \ {w} : worker'[u] = worker[u]

\* A handler record outside the signing phase replaces another one.
LEMMA QuietUpdate ==
  ASSUME TypeOK, dedup' = dedup, NEW w \in Worker, NEW h,
         worker' = [worker EXCEPT ![w] = h], h.pc \notin {"send", "sent", "confirm"},
         ~Signing(w)
  PROVE  QuietStep
<1>1. ~Signing(w)' /\ \A u \in Worker \ {w} : worker'[u] = worker[u]
  BY DEF TypeOK, Signing
<1> QED
  BY <1>1 DEF QuietStep, SignsFor, Signing, Keyed, DedupKeyOf

\* What claim_or_replay does to the records.
LEMMA LedgerClaim ==
  ASSUME TypeOK, ClaimInv, NEW w \in Worker, NEW m \in Msg,
         Env[m].subject \in {"submit", "mint"}, worker[w].pc = "idle", ClaimOrReplay(w, m)
  PROVE  QuietStep \/ \E k \in DedupKey : ClaimStep(w, k)
<1> DEFINE r == Home[w]
           k == DedupKeyOf(m)
           rec == dedup[r][k]
<1>0. ~Signing(w)
  BY DEF Signing
<1>1. CASE Blocks(m, rec)
  <2> DEFINE h == At("publish", m, rec.sig, IF rec.state = "Done" THEN "success" ELSE "failure")
  <2>1. worker' = [worker EXCEPT ![w] = h] /\ dedup' = dedup
    BY <1>1 DEF ClaimOrReplay
  <2>2. h.pc = "publish"
    BY AtPc
  <2> HIDE DEF h
  <2> QED BY Zenon, <1>0, <2>1, <2>2, QuietUpdate
<1>2. CASE ~Blocks(m, rec)
  <2> DEFINE new == [state |-> "InFlight", ttl |-> ClaimTTL, sig |-> NoSig]
  <2>1. /\ worker' = [worker EXCEPT ![w] = Claiming(m)]
        /\ dedup' = IF Keyed(m) THEN [dedup EXCEPT ![r][k] = new] ELSE dedup
    BY <1>2 DEF ClaimOrReplay
  <2>2. /\ worker'[w].msg = m /\ Signing(w)'
        /\ \A u \in Worker \ {w} : worker'[u] = worker[u]
    BY <2>1 DEF TypeOK, Claiming, Signing
  <2>3. CASE ~Keyed(m)
    BY <1>0, <2>1, <2>2, <2>3 DEF QuietStep, SignsFor, Signing, Keyed, DedupKeyOf
  <2>4. CASE Keyed(m)
    <3>1. k \in DedupKey
      BY Zenon, <2>4, DedupKeyType
    <3>2. ~Recorded(r, k)
      BY <1>2, <2>4 DEF Blocks, Recorded
    <3>3. ASSUME NEW u \in Worker, Home[u] = Home[w], SignsFor(u, k) PROVE FALSE
      <4>1. rec.state = "InFlight" /\ rec.ttl > 0
        BY <3>3 DEF ClaimInv, ClaimHeld, SignsFor
      <4> QED BY <1>2, <2>4, <4>1 DEF Blocks
    <3>4. SignsFor(w, k)'
      BY <2>2, <2>4 DEF SignsFor, Keyed, DedupKeyOf
    <3>5. dedup' = [dedup EXCEPT ![r][k] = new] /\ new.state = "InFlight"
      BY <2>1, <2>4
    <3> HIDE DEF k, new
    <3>6. ClaimStep(w, k)
      BY Zenon, <1>0, <2>2, <3>2, <3>3, <3>4, <3>5 DEF ClaimStep
    <3> QED BY <3>1, <3>6
  <2> QED BY ZenonT(30), <2>3, <2>4
<1> QED
  BY <1>1, <1>2

\* What the end of an attempt does to the records.
LEMMA LedgerOutcome ==
  ASSUME TypeOK, ClaimInv, NEW w \in Worker, NEW ok \in BOOLEAN, Signing(w),
         RecordOutcome(w, ok)
  PROVE  QuietStep \/ \E k \in DedupKey : OutcomeStep(w, k, ok)
<1> DEFINE h == worker[w]
           m == h.msg
           k == DedupKeyOf(m)
           rec == IF ok THEN [state |-> "Done", ttl |-> h.left, sig |-> h.sig] ELSE NoRecord
<1>1. ~Signing(w)' /\ \A u \in Worker \ {w} : worker'[u] = worker[u]
  BY AtPc DEF RecordOutcome, TypeOK, Signing
<1>2. m \in Msg /\ Env[m].subject \in {"submit", "mint"}
  BY ZenonT(30), BusyMsg DEF Signing, WellFormed, TypeOK
<1>3. CASE ~Keyed(m)
  <2>1. dedup' = dedup
    BY <1>3 DEF RecordOutcome
  <2> QED BY <1>1, <1>3, <2>1 DEF QuietStep, SignsFor, Signing, Keyed, DedupKeyOf
<1>4. CASE Keyed(m)
  <2>1. k \in DedupKey /\ SignsFor(w, k)
    BY Zenon, <1>2, <1>4, DedupKeyType DEF SignsFor
  <2>2. dedup' = [dedup EXCEPT ![Home[w]][k] = rec]
    BY Zenon, <1>4 DEF RecordOutcome
  <2>3. h.left > 0
    BY Zenon, <1>4 DEF ClaimInv, ClaimHeld
  <2>4. (ok => rec.state = "Done" /\ rec.ttl > 0) /\ (~ok => rec.state = "Absent")
    BY <2>3 DEF NoRecord
  <2> HIDE DEF k, rec
  <2>5. OutcomeStep(w, k, ok)
    BY Zenon, <1>1, <2>1, <2>2, <2>4 DEF OutcomeStep
  <2> QED BY <2>1, <2>5
<1> QED
  BY Zenon, <1>3, <1>4

\* A handler that starts is quiet or claims.
LEMMA LedgerHandle ==
  ASSUME TypeOK, ClaimInv, NEW w \in Worker, NEW m \in Msg, Handle(w, m)
  PROVE  QuietStep \/ \E k \in DedupKey : ClaimStep(w, k)
<1>0. worker[w].pc = "idle"
  BY DEF Handle, HandleSubmit, HandleMint, HandleCancel, HandleStatus,
         HandleUnknownSubject, Take
<1>00. ~Signing(w)
  BY <1>0 DEF Signing
<1>1. ASSUME NEW v \in {"ack", "audit", "publish", "accept"}, TurnAway(w, m, v)
      PROVE  QuietStep
  <2>1. worker' = [worker EXCEPT ![w] = At(v, m, NoSig, "failure")] /\ dedup' = dedup
    BY <1>1 DEF TurnAway, stores
  <2>2. At(v, m, NoSig, "failure").pc \notin {"send", "sent", "confirm"}
    BY AtPc
  <2> QED BY Zenon, <1>00, <2>1, <2>2, QuietUpdate
<1>3. CASE HandleSubmit(w, m)
  BY <1>0, <1>1, <1>3, ScreenVerdicts, LedgerClaim DEF HandleSubmit
<1>4. CASE HandleMint(w, m)
  BY <1>0, <1>1, <1>4, ScreenVerdicts, LedgerClaim DEF HandleMint
<1>5. CASE HandleCancel(w, m)
  <2>1. CASE TurnAway(w, m, ScreenCancel(Home[w], m))
    BY <1>1, <2>1, ScreenVerdicts
  <2>2. CASE worker' = [worker EXCEPT ![w] = At("publish", m, NoSig, "success")] /\ dedup' = dedup
    <3>1. At("publish", m, NoSig, "success").pc \notin {"send", "sent", "confirm"}
      BY AtPc
    <3> QED BY ZenonT(30), <1>00, <2>2, <3>1, QuietUpdate
  <2> QED BY <1>5, <2>1, <2>2 DEF HandleCancel
<1>6. CASE HandleStatus(w, m)
  <2>1. CASE TurnAway(w, m, ScreenStatus(m))
    BY <1>1, <2>1, ScreenVerdicts
  <2>2. CASE worker' = [worker EXCEPT ![w] = At("query", m, NoSig, "failure")] /\ dedup' = dedup
    <3>1. At("query", m, NoSig, "failure").pc \notin {"send", "sent", "confirm"}
      BY AtPc
    <3> QED BY Zenon, <1>00, <2>2, <3>1, QuietUpdate
  <2> QED BY <1>6, <2>1, <2>2 DEF HandleStatus, stores
<1>7. CASE HandleUnknownSubject(w, m)
  BY <1>1, <1>7 DEF HandleUnknownSubject
<1> QED
  BY <1>3, <1>4, <1>5, <1>6, <1>7 DEF Handle

\* A handler that continues is quiet or ends its attempt.
LEMMA LedgerContinue ==
  ASSUME TypeOK, ClaimInv, NEW w \in Worker,
         Continue(w) \/ SignAndSubmit(w) \/ ResolveConfirmation(w)
  PROVE  QuietStep \/ \E k \in DedupKey, ok \in BOOLEAN : OutcomeStep(w, k, ok)
<1>0. worker[w] \in Handler
  BY DEF TypeOK
<1>1. ASSUME NEW ok \in BOOLEAN, Signing(w), RecordOutcome(w, ok)
      PROVE  QuietStep \/ \E k \in DedupKey, o \in BOOLEAN : OutcomeStep(w, k, o)
  BY <1>1, LedgerOutcome
<1>2. ASSUME dedup' = dedup, \A u \in Worker \ {w} : worker'[u] = worker[u],
             \/ ~Signing(w) /\ ~Signing(w)'
             \/ Signing(w) /\ Signing(w)' /\ worker'[w].msg = worker[w].msg
      PROVE  QuietStep
  BY <1>2 DEF QuietStep, SignsFor, Signing, Keyed, DedupKeyOf
<1>3. CASE AuditRejection(w) \/ QuerySignatureStatus(w) \/ PublishResult(w)
           \/ \E arrives \in BOOLEAN : Ack(w, arrives)
  <2>1. dedup' = dedup /\ worker[w].pc \in {"audit", "query", "publish", "ack"}
        /\ worker'[w].pc \in {"publish", "ack", "idle"}
        /\ \A u \in Worker \ {w} : worker'[u] = worker[u]
    BY <1>0, <1>3 DEF AuditRejection, QuerySignatureStatus, PublishResult, Ack, At, Idle,
                      stores, TypeOK, Handler
  <2> QED BY <1>2, <2>1 DEF Signing
<1>4. ASSUME NEW pc \in {"send", "confirm"}, Signing(w), dedup' = dedup,
             worker' = [worker EXCEPT ![w].pc = pc]
      PROVE  QuietStep
  <2>1. worker'[w].pc = pc /\ worker'[w].msg = worker[w].msg
        /\ \A u \in Worker \ {w} : worker'[u] = worker[u]
    BY <1>0, <1>4 DEF TypeOK, Handler
  <2> QED BY <1>2, <1>4, <2>1 DEF Signing
<1>5. CASE RetrySubmit(w)
  BY <1>4, <1>5 DEF RetrySubmit, stores, Signing
<1>6. CASE FinishSubmit(w)
  BY Zenon, <1>1, <1>6 DEF FinishSubmit, Signing
<1>7. CASE FinishMintSend(w)
  BY ZenonT(30), <1>1, <1>4, <1>7 DEF FinishMintSend, stores, Signing
<1>8. CASE SignAndSubmit(w)
  <2>1. PICK sig : worker' = [worker EXCEPT ![w].pc = "sent", ![w].tries = @ + 1, ![w].sig = sig]
    BY Zenon, <1>8 DEF SignAndSubmit
  <2>2. dedup' = dedup /\ worker[w].pc = "send"
    BY Zenon, <1>8 DEF SignAndSubmit, stores
  <2>3. worker'[w].pc = "sent" /\ worker'[w].msg = worker[w].msg
        /\ \A u \in Worker \ {w} : worker'[u] = worker[u]
    BY <1>0, <2>1 DEF TypeOK, Handler
  <2> QED BY <1>2, <2>2, <2>3 DEF Signing
<1>9. CASE ResolveConfirmation(w)
  BY <1>1, <1>9 DEF ResolveConfirmation, Signing
<1> QED
  BY <1>3, <1>5, <1>6, <1>7, <1>8, <1>9 DEF Continue

\* The other steps are quiet, except for the cleanup, restarts and time.
LEMMA LedgerRest ==
  ASSUME \/ \E m \in Msg : PublishEnvelope(m) \/ Pull(m)
         \/ \E s \in Sig : Land(s)
         \/ UNCHANGED vars
  PROVE  QuietStep
<1>1. worker' = worker /\ dedup' = dedup
  BY DEF PublishEnvelope, Pull, Land, stores, vars
<1> QED
  BY <1>1 DEF QuietStep, SignsFor, Signing, Keyed, DedupKeyOf

\* The cleanup removes expired records only.
LEMMA LedgerCleanup ==
  ASSUME TypeOK, NEW q \in Replica, Cleanup(q)
  PROVE  /\ \A r \in Replica, k \in DedupKey :
              dedup'[r][k] = dedup[r][k] \/ (dedup[r][k].ttl = 0 /\ dedup'[r][k] = NoRecord)
         /\ \A u \in Worker, k \in DedupKey : SignsFor(u, k)' <=> SignsFor(u, k)
<1>1. dedup' = [dedup EXCEPT ![q] = [l \in DedupKey |->
                  IF @[l].ttl = 0 THEN NoRecord ELSE @[l]]]
  BY DEF Cleanup
<1>2. worker' = worker
  BY DEF Cleanup
<1>3. \A r \in Replica, k \in DedupKey :
        dedup'[r][k] = dedup[r][k] \/ (dedup[r][k].ttl = 0 /\ dedup'[r][k] = NoRecord)
  BY <1>1 DEF TypeOK
<1> QED
  BY <1>2, <1>3 DEF SignsFor, Signing, Keyed, DedupKeyOf

\* A restart empties the records of its replica and drops its handlers.
LEMMA LedgerReconnect ==
  ASSUME TypeOK, NEW q \in Replica, Reconnect(q)
  PROVE  /\ reconnects' # reconnects
         /\ \A r \in Replica \ {q} : dedup'[r] = dedup[r]
         /\ \A k \in DedupKey : dedup'[q][k] = NoRecord
         /\ \A u \in Worker, k \in DedupKey :
              SignsFor(u, k)' <=> SignsFor(u, k) /\ Home[u] # q
<1>1. \A u \in Worker : worker'[u] = IF Home[u] = q THEN Idle ELSE worker[u]
  BY DEF Reconnect
<1>2. \A u \in Worker, k \in DedupKey : SignsFor(u, k)' <=> SignsFor(u, k) /\ Home[u] # q
  BY <1>1 DEF SignsFor, Signing, Keyed, DedupKeyOf, Idle, At
<1>3. dedup' = [dedup EXCEPT ![q] = [k \in DedupKey |-> NoRecord]]
  BY DEF Reconnect
<1>4. /\ \A r \in Replica \ {q} : dedup'[r] = dedup[r]
      /\ \A k \in DedupKey : dedup'[q][k] = NoRecord
  BY <1>3 DEF TypeOK
<1>5. reconnects' # reconnects
  BY DurationAssumption DEF Reconnect, TypeOK
<1> QED
  BY <1>2, <1>4, <1>5

\* Time only lets records run out.
LEMMA LedgerTick ==
  ASSUME TypeOK, Tick
  PROVE  /\ \A r \in Replica, k \in DedupKey :
              /\ dedup'[r][k].state = dedup[r][k].state
              /\ dedup'[r][k].sig = dedup[r][k].sig
              /\ dedup'[r][k].ttl > 0 => dedup[r][k].ttl > 0
         /\ \A u \in Worker, k \in DedupKey : SignsFor(u, k)' <=> SignsFor(u, k)
<1>1. ASSUME NEW r \in Replica, NEW k \in DedupKey
      PROVE  /\ dedup'[r][k].state = dedup[r][k].state
             /\ dedup'[r][k].sig = dedup[r][k].sig
             /\ dedup'[r][k].ttl > 0 => dedup[r][k].ttl > 0
  <2>1. dedup[r][k] \in DedupRecord /\ dedup'[r][k] = [dedup[r][k] EXCEPT !.ttl = Less(@)]
    BY DEF TypeOK, Tick
  <2> QED BY <2>1, DurationAssumption DEF DedupRecord, Less
<1>2. \A u \in Worker : worker'[u].pc = worker[u].pc /\ worker'[u].msg = worker[u].msg
  BY DEF Tick, TypeOK, Handler
<1> QED
  BY <1>1, <1>2 DEF SignsFor, Signing, Keyed, DedupKeyOf

\* As long as no handler outlives its claim, an unexpired Done record is only
\* ever forgotten by a restart: no handler overwrites or removes it.
THEOREM DoneKept == ASSUME Timely PROVE Spec => DoneOnlyExpires
<1>1. TypeOK /\ ClaimInv /\ [Next]_vars =>
        \A r \in Replica, k \in DedupKey :
          dedup[r][k].state = "Done" /\ dedup[r][k].ttl > 0 /\ reconnects' = reconnects
          => dedup'[r][k].state = "Done" /\ dedup'[r][k].sig = dedup[r][k].sig
  <2> SUFFICES ASSUME TypeOK, ClaimInv, [Next]_vars, NEW r \in Replica, NEW k \in DedupKey,
                      dedup[r][k].state = "Done", dedup[r][k].ttl > 0,
                      reconnects' = reconnects
               PROVE  dedup'[r][k].state = "Done" /\ dedup'[r][k].sig = dedup[r][k].sig
    OBVIOUS
  <2>1. CASE QuietStep
    BY <2>1 DEF QuietStep
  <2>2. ASSUME NEW w \in Worker, NEW l \in DedupKey, Home[w] # r \/ l # k,
               \E rec : dedup' = [dedup EXCEPT ![Home[w]][l] = rec]
        PROVE  dedup'[r][k] = dedup[r][k]
    BY <2>2, StaticAssumption DEF TypeOK
  <2>3. ASSUME NEW w \in Worker, NEW l \in DedupKey, ClaimStep(w, l)
        PROVE  dedup'[r][k] = dedup[r][k]
    BY <2>2, <2>3 DEF ClaimStep, Recorded
  <2>4. ASSUME NEW w \in Worker, NEW l \in DedupKey, NEW ok \in BOOLEAN, OutcomeStep(w, l, ok)
        PROVE  dedup'[r][k] = dedup[r][k]
    <3>1. dedup[Home[w]][l].state = "InFlight"
      BY <2>4 DEF OutcomeStep, SignsFor, ClaimInv, ClaimHeld
    <3> QED BY <2>2, <2>4, <3>1 DEF OutcomeStep
  <2>5. ASSUME NEW q \in Replica, Cleanup(q) PROVE dedup'[r][k] = dedup[r][k]
    BY <2>5, LedgerCleanup
  <2>6. ASSUME NEW q \in Replica, Reconnect(q) PROVE FALSE
    BY <2>6, LedgerReconnect
  <2>7. CASE Tick
    BY <2>7, LedgerTick
  <2> QED
    BY <2>1, <2>3, <2>4, <2>5, <2>6, <2>7, LedgerHandle, LedgerContinue, LedgerRest DEF Next
<1> QED
  BY <1>1, TypeCorrect, ClaimInductive, PTL DEF Spec, DoneOnlyExpires

-----------------------------------------------------------------------------
(* The dedup_store implements the ledger.                                  *)

\* The slot of a key with the given signers, recorded or not.
SlotOf(by, recorded) ==
  [state |-> IF by # {} THEN "held" ELSE IF recorded THEN "done" ELSE "free", by |-> by]

\* The three kinds of slot.
LEMMA SlotForms ==
  /\ SlotOf({}, FALSE) = Ledger!Free
  /\ SlotOf({}, TRUE) = Ledger!Done
  /\ \A w \in Worker, recorded \in BOOLEAN : SlotOf({w}, recorded) = Ledger!Held(w)
BY DEF SlotOf, Ledger!Free, Ledger!Done, Ledger!Held

\* Who signs for a key at a replica.
LEMMA SignersAre ==
  \A r, k : /\ Signers(r, k) = {w \in Worker : Home[w] = r /\ SignsFor(w, k)}
            /\ Signers(r, k)' = {w \in Worker : Home[w] = r /\ SignsFor(w, k)'}
BY DEF Signers, SignsFor

\* The ledger, slot by slot.
LEMMA LedgerSlots ==
  LedgerOf = [r \in Replica |-> [k \in DedupKey |-> SlotOf(Signers(r, k), Recorded(r, k))]]
BY Zenon DEF LedgerOf, SlotOf, Recorded

\* One slot, before and after a step.
LEMMA LedgerAt ==
  \A r \in Replica, k \in DedupKey :
    /\ LedgerOf[r][k] = SlotOf(Signers(r, k), Recorded(r, k))
    /\ LedgerOf'[r][k] = SlotOf(Signers(r, k)', Recorded(r, k)')
BY DEF LedgerOf, SlotOf, Recorded

\* A step after which one slot is new, and the others are what they were.
LEMMA LedgerExcept ==
  ASSUME NEW q \in Replica, NEW l \in DedupKey, NEW slot,
         LedgerOf'[q][l] = slot,
         \A r \in Replica, k \in DedupKey : r # q \/ k # l => LedgerOf'[r][k] = LedgerOf[r][k]
  PROVE  LedgerOf' = [LedgerOf EXCEPT ![q][l] = slot]
<1> DEFINE A == LedgerOf
           B == LedgerOf'
<1>1. /\ A = [r \in Replica |-> [k \in DedupKey |-> A[r][k]]]
      /\ B = [r \in Replica |-> [k \in DedupKey |-> B[r][k]]]
  BY DEF LedgerOf
<1> HIDE DEF A, B
<1>2. B[q][l] = slot /\ \A r \in Replica, k \in DedupKey : r # q \/ k # l => B[r][k] = A[r][k]
  BY DEF A, B
<1>3. B = [A EXCEPT ![q][l] = slot]
  BY <1>1, <1>2
<1> QED
  BY ZenonT(30), <1>3 DEF A, B
\* A slot whose signers and whose record stay, stays.
LEMMA LedgerSame ==
  ASSUME NEW r \in Replica, NEW k \in DedupKey,
         \A u \in Worker : Home[u] = r => (SignsFor(u, k)' <=> SignsFor(u, k)),
         Recorded(r, k)' <=> Recorded(r, k)
  PROVE  LedgerOf'[r][k] = LedgerOf[r][k]
<1>1. Signers(r, k)' = Signers(r, k)
  BY Zenon, SignersAre
<1>2. SlotOf(Signers(r, k)', Recorded(r, k)') = SlotOf(Signers(r, k), Recorded(r, k))
  BY <1>1 DEF SlotOf
<1> QED
  BY <1>2, LedgerAt

\* The ledger does not change when no slot does.
LEMMA LedgerStutters ==
  ASSUME \A r \in Replica, k \in DedupKey : LedgerOf'[r][k] = LedgerOf[r][k]
  PROVE  LedgerOf' = LedgerOf
<1> DEFINE A == LedgerOf
           B == LedgerOf'
<1>1. /\ A = [r \in Replica |-> [k \in DedupKey |-> A[r][k]]]
      /\ B = [r \in Replica |-> [k \in DedupKey |-> B[r][k]]]
  BY DEF LedgerOf
<1>2. \A r \in Replica, k \in DedupKey : B[r][k] = A[r][k]
  OBVIOUS
<1> HIDE DEF A, B
<1>3. B = A
  BY <1>1, <1>2
<1> QED
  BY <1>3 DEF A, B

\* Handlers that did not move, and handlers of other replicas, sign as before.
LEMMA SignsAsBefore ==
  ASSUME NEW u \in Worker, NEW k, worker'[u] = worker[u]
  PROVE  SignsFor(u, k)' <=> SignsFor(u, k)
BY DEF SignsFor, Signing, Keyed, DedupKeyOf

\* A handler signs for one key at a time.
LEMMA SignsForOne ==
  ASSUME NEW u \in Worker, NEW k, NEW l, SignsFor(u, k), SignsFor(u, l) PROVE k = l
BY DEF SignsFor

\* The other records of an update.
LEMMA OtherRecords ==
  ASSUME TypeOK, NEW q \in Replica, NEW l \in DedupKey, NEW rec,
         dedup' = [dedup EXCEPT ![q][l] = rec]
  PROVE  /\ dedup'[q][l] = rec
         /\ \A r \in Replica, k \in DedupKey :
              r # q \/ k # l => (Recorded(r, k)' <=> Recorded(r, k))
<1>1. dedup'[q][l] = rec
  BY DEF TypeOK
<1>2. \A r \in Replica, k \in DedupKey : r # q \/ k # l => dedup'[r][k] = dedup[r][k]
  BY DEF TypeOK
<1> QED
  BY <1>1, <1>2 DEF Recorded

\* claim_or_replay is the ledger's Claim.
LEMMA RefineClaim ==
  ASSUME TypeOK, NEW w \in Worker, NEW k \in DedupKey, ClaimStep(w, k)
  PROVE  Ledger!Claim(Home[w], k, w)
<1> DEFINE q == Home[w]
<1>0. q \in Replica
  BY StaticAssumption
<1>1. LedgerOf[q][k] = Ledger!Free
  <2>1. Signers(q, k) = {}
    BY SignersAre DEF ClaimStep
  <2>2. Recorded(q, k) = FALSE
    BY DEF ClaimStep, Recorded
  <2> QED BY Zenon, <1>0, <2>1, <2>2, LedgerAt, SlotForms
<1>2. PICK rec : dedup' = [dedup EXCEPT ![q][k] = rec] /\ rec.state = "InFlight"
  BY Zenon DEF ClaimStep
<1>3. dedup'[q][k] = rec /\ \A r \in Replica, l \in DedupKey :
                              r # q \/ l # k => (Recorded(r, l)' <=> Recorded(r, l))
  BY Zenon, <1>0, <1>2, OtherRecords
<1>4. LedgerOf'[q][k] = Ledger!Held(w)
  <2>2. \A u \in Worker : Home[u] = q => (SignsFor(u, k)' <=> u = w)
    BY SignsAsBefore DEF ClaimStep
  <2>3. Signers(q, k)' = {w}
    BY <2>2, SignersAre
  <2>5. SlotOf(Signers(q, k)', Recorded(q, k)') = SlotOf({w}, FALSE)
    BY ZenonT(30), <1>2, <1>3, <2>3 DEF SlotOf, Recorded
  <2> QED BY Zenon, <1>0, <2>5, LedgerAt, SlotForms
<1>5. ASSUME NEW r \in Replica, NEW l \in DedupKey, r # q \/ l # k
      PROVE  LedgerOf'[r][l] = LedgerOf[r][l]
  <2>1. ASSUME NEW u \in Worker, Home[u] = r PROVE SignsFor(u, l)' <=> SignsFor(u, l)
    <3>1. CASE u # w
      BY <3>1, SignsAsBefore DEF ClaimStep
    <3>2. CASE u = w
      BY <1>5, <2>1, <3>2 DEF ClaimStep, SignsFor
    <3> QED BY <3>1, <3>2
  <2> QED BY <1>3, <1>5, <2>1, LedgerSame
<1>6. LedgerOf' = [LedgerOf EXCEPT ![q][k] = Ledger!Held(w)]
  BY <1>0, <1>4, <1>5, LedgerExcept
<1> QED
  BY <1>1, <1>6 DEF Ledger!Claim

\* The end of an attempt is the ledger's Complete or Release.
LEMMA RefineOutcome ==
  ASSUME TypeOK, ClaimInv, NEW w \in Worker, NEW k \in DedupKey, NEW ok \in BOOLEAN,
         OutcomeStep(w, k, ok)
  PROVE  Ledger!Complete(Home[w], k, w) \/ Ledger!Release(Home[w], k, w)
<1> DEFINE q == Home[w]
<1>0. q \in Replica
  BY StaticAssumption
<1>00. \A u \in Worker : Home[u] = q => (SignsFor(u, k) <=> u = w)
  BY DEF OutcomeStep, ClaimInv, ClaimExclusive, SignsFor
<1>1. LedgerOf[q][k] = Ledger!Held(w)
  <2>1. Signers(q, k) = {w}
    BY <1>00, SignersAre
  <2>2. Recorded(q, k) \in BOOLEAN
    BY DEF Recorded
  <2> QED BY <1>0, <2>1, <2>2, LedgerAt, SlotForms
<1>2. PICK rec : /\ dedup' = [dedup EXCEPT ![q][k] = rec]
                 /\ ok => rec.state = "Done" /\ rec.ttl > 0
                 /\ ~ok => rec.state = "Absent"
  BY Zenon DEF OutcomeStep
<1>3. dedup'[q][k] = rec /\ \A r \in Replica, l \in DedupKey :
                              r # q \/ l # k => (Recorded(r, l)' <=> Recorded(r, l))
  BY Zenon, <1>0, <1>2, OtherRecords
<1>4. LedgerOf'[q][k] = IF ok THEN Ledger!Done ELSE Ledger!Free
  <2>2. \A u \in Worker : Home[u] = q => ~SignsFor(u, k)'
    BY <1>00, SignsAsBefore DEF OutcomeStep, SignsFor
  <2>3. Signers(q, k)' = {}
    BY <2>2, SignersAre
  <2>5. SlotOf(Signers(q, k)', Recorded(q, k)') = SlotOf({}, ok)
    BY ZenonT(30), <1>2, <1>3, <2>3 DEF SlotOf, Recorded
  <2> QED BY ZenonT(30), <1>0, <2>5, LedgerAt, SlotForms
<1>5. ASSUME NEW r \in Replica, NEW l \in DedupKey, r # q \/ l # k
      PROVE  LedgerOf'[r][l] = LedgerOf[r][l]
  <2>1. ASSUME NEW u \in Worker, Home[u] = r PROVE SignsFor(u, l)' <=> SignsFor(u, l)
    <3>1. CASE u # w
      BY <3>1, SignsAsBefore DEF OutcomeStep
    <3>2. CASE u = w
      BY <1>5, <2>1, <3>2 DEF OutcomeStep, SignsFor
    <3> QED BY <3>1, <3>2
  <2> QED BY <1>3, <1>5, <2>1, LedgerSame
<1>6. LedgerOf' = [LedgerOf EXCEPT ![q][k] = IF ok THEN Ledger!Done ELSE Ledger!Free]
  BY <1>0, <1>4, <1>5, LedgerExcept
<1> QED
  BY Zenon, <1>1, <1>6 DEF Ledger!Complete, Ledger!Release

\* A restart is the ledger's Restart.
LEMMA RefineReconnect ==
  ASSUME TypeOK, NEW q \in Replica, Reconnect(q)
  PROVE  Ledger!Restart(q)
<1>1. ASSUME NEW k \in DedupKey PROVE LedgerOf'[q][k] = Ledger!Free
  <2>2. Signers(q, k)' = {}
    BY SignersAre, LedgerReconnect
  <2>3. ~Recorded(q, k)'
    <3>1. dedup'[q][k] = NoRecord
      BY LedgerReconnect
    <3> QED BY <3>1 DEF Recorded, NoRecord
  <2>4. SlotOf(Signers(q, k)', Recorded(q, k)') = SlotOf({}, FALSE)
    BY <2>2, <2>3 DEF SlotOf
  <2> QED BY ZenonT(30), <2>4, LedgerAt, SlotForms
<1>2. ASSUME NEW r \in Replica \ {q}, NEW k \in DedupKey PROVE LedgerOf'[r][k] = LedgerOf[r][k]
  <2>1. Recorded(r, k)' <=> Recorded(r, k)
    BY LedgerReconnect DEF Recorded
  <2>2. \A u \in Worker : Home[u] = r => (SignsFor(u, k)' <=> SignsFor(u, k))
    BY ZenonT(30), LedgerReconnect
  <2> QED BY Zenon, <2>1, <2>2, LedgerSame
<1> DEFINE A == LedgerOf
           B == LedgerOf'
<1>3. /\ A = [r \in Replica |-> [k \in DedupKey |-> A[r][k]]]
      /\ B = [r \in Replica |-> [k \in DedupKey |-> B[r][k]]]
  BY DEF LedgerOf
<1>4. /\ \A k \in DedupKey : B[q][k] = Ledger!Free
      /\ \A r \in Replica \ {q}, k \in DedupKey : B[r][k] = A[r][k]
  BY <1>1, <1>2
<1> HIDE DEF A, B
<1>5. B = [A EXCEPT ![q] = [k \in DedupKey |-> Ledger!Free]]
  BY <1>3, <1>4
<1> QED
  BY <1>5 DEF A, B, Ledger!Restart

\* Time lets completed effects expire, and nothing else.
LEMMA RefineTick ==
  ASSUME TypeOK, Tick
  PROVE  Ledger!Expire
<1>1. LedgerOf' \in [Replica -> [DedupKey -> Ledger!Slot]]
  <2>1. \A r, k : Signers(r, k)' \in SUBSET Worker
    BY DEF Signers
  <2> QED BY <2>1 DEF LedgerOf, Ledger!Slot
<1>2. ASSUME NEW r \in Replica, NEW k \in DedupKey
      PROVE  \/ LedgerOf'[r][k] = LedgerOf[r][k]
             \/ LedgerOf[r][k] = Ledger!Done /\ LedgerOf'[r][k] = Ledger!Free
  <2>1. Signers(r, k)' = Signers(r, k)
    BY Zenon, SignersAre, LedgerTick
  <2>2. Recorded(r, k)' => Recorded(r, k)
    BY ZenonT(30), LedgerTick DEF Recorded
  <2>3. CASE Recorded(r, k)' <=> Recorded(r, k)
    BY <2>3, LedgerTick, LedgerSame
  <2>4. CASE Recorded(r, k) /\ ~Recorded(r, k)' /\ Signers(r, k) = {}
    <3>2. SlotOf(Signers(r, k)', Recorded(r, k)') = SlotOf({}, FALSE)
      BY <2>1, <2>4 DEF SlotOf
    <3>3. SlotOf(Signers(r, k), Recorded(r, k)) = SlotOf({}, TRUE)
      BY <2>4 DEF SlotOf
    <3> QED BY Zenon, <3>2, <3>3, LedgerAt, SlotForms
  <2>5. CASE Signers(r, k) # {}
    <3>2. SlotOf(Signers(r, k)', Recorded(r, k)') = SlotOf(Signers(r, k), Recorded(r, k))
      BY <2>1, <2>5 DEF SlotOf
    <3> QED BY <3>2, LedgerAt
  <2> QED BY <2>2, <2>3, <2>4, <2>5
<1> QED
  BY <1>1, <1>2 DEF Ledger!Expire

\* As long as no handler outlives its claim, the dedup_store implements the
\* claim ledger: one holder per key, only the holder completes or releases, and
\* a held claim is forgotten by a restart only.
THEOREM LedgerImplemented == ASSUME Timely PROVE Spec => ImplementsLedger
<1>1. Init => Ledger!Init
  <2> SUFFICES ASSUME Init PROVE Ledger!Init
    OBVIOUS
  <2>1. \A r \in Replica, k \in DedupKey : Signers(r, k) = {} /\ Recorded(r, k) = FALSE
    BY DEF Init, Signers, Signing, Idle, At, Recorded, NoRecord
  <2>2. \A r \in Replica, k \in DedupKey : SlotOf(Signers(r, k), Recorded(r, k)) = Ledger!Free
    BY Zenon, <2>1 DEF SlotOf, Ledger!Free
  <2> QED BY <2>2, LedgerSlots DEF Ledger!Init
<1>2. TypeOK /\ ClaimInv /\ [Next]_vars => [Ledger!Next]_LedgerOf
  <2> SUFFICES ASSUME TypeOK, ClaimInv, [Next]_vars PROVE Ledger!Next \/ LedgerOf' = LedgerOf
    OBVIOUS
  <2>1. CASE QuietStep
    <3>1. ASSUME NEW r \in Replica, NEW k \in DedupKey PROVE LedgerOf'[r][k] = LedgerOf[r][k]
      BY <2>1, LedgerSame DEF QuietStep, Recorded
    <3> QED BY <3>1, LedgerStutters
  <2>2. ASSUME NEW w \in Worker, NEW k \in DedupKey, ClaimStep(w, k) PROVE Ledger!Next
    BY <2>2, RefineClaim, StaticAssumption DEF Ledger!Next
  <2>3. ASSUME NEW w \in Worker, NEW k \in DedupKey, NEW ok \in BOOLEAN, OutcomeStep(w, k, ok)
        PROVE  Ledger!Next
    BY <2>3, RefineOutcome, StaticAssumption DEF Ledger!Next
  <2>4. ASSUME NEW q \in Replica, Cleanup(q) PROVE LedgerOf' = LedgerOf
    <3>1. ASSUME NEW r \in Replica, NEW k \in DedupKey PROVE LedgerOf'[r][k] = LedgerOf[r][k]
      <4>1. Recorded(r, k)' <=> Recorded(r, k)
        <5>1. dedup'[r][k] = dedup[r][k] \/ (dedup[r][k].ttl = 0 /\ dedup'[r][k] = NoRecord)
          BY <2>4, LedgerCleanup
        <5> QED BY <5>1 DEF Recorded, NoRecord
      <4> QED BY <2>4, <4>1, LedgerCleanup, LedgerSame
    <3> QED BY ZenonT(30), <3>1, LedgerStutters
  <2>5. ASSUME NEW q \in Replica, Reconnect(q) PROVE Ledger!Next
    BY <2>5, RefineReconnect DEF Ledger!Next
  <2>6. CASE Tick
    BY <2>6, RefineTick DEF Ledger!Next
  <2> QED
    BY <2>1, <2>2, <2>3, <2>4, <2>5, <2>6, LedgerHandle, LedgerContinue, LedgerRest DEF Next
<1> QED
  BY <1>1, <1>2, TypeCorrect, ClaimInductive, PTL DEF Spec, ImplementsLedger, Ledger!Spec

=============================================================================
