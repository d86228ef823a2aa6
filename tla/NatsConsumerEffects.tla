------------------------ MODULE NatsConsumerEffects -----------------------
(***************************************************************************)
(* What deliveries lead to, for all values of the constants: which of them *)
(* begin to sign, how often a message does, what a cancel prevents, and    *)
(* what a success reply is worth.                                          *)
(***************************************************************************)
EXTENDS NatsConsumerTypes

-----------------------------------------------------------------------------
(* What begins to sign.  Only claim_or_replay counts a start, after every  *)
(* check of the message's handler.                                         *)

Accepted(r, m) ==
  \/ Env[m].subject = "submit" /\ ScreenSubmit(r, m) = "accept"
  \/ Env[m].subject = "mint" /\ ScreenMint(r, m) = "accept"

Begins(w, m) ==
  /\ worker[w].pc = "idle" /\ Accepted(Home[w], m)
  /\ worker' = [worker EXCEPT ![w] = Claiming(m)]
  /\ starts' = [starts EXCEPT ![m] = @ + 1]

\* A handler begins to sign in this way only.
LEMMA StartsOnlyAccepted ==
  ASSUME TypeOK, NEW w \in Worker, NEW m \in Msg, Handle(w, m)
  PROVE  \/ Begins(w, m)
         \/ /\ starts' = starts
            /\ \E h : worker' = [worker EXCEPT ![w] = h] /\ h.pc # "send"
<1>0. worker[w].pc = "idle"
  BY DEF Handle, HandleSubmit, HandleMint, HandleCancel, HandleStatus,
         HandleUnknownSubject, Take
<1>1. ASSUME NEW v \in {"ack", "audit", "publish", "accept"}, TurnAway(w, m, v)
      PROVE  /\ starts' = starts
             /\ \E h : worker' = [worker EXCEPT ![w] = h] /\ h.pc # "send"
  <2>1. At(v, m, NoSig, "failure").pc # "send"
    BY DEF At
  <2> QED BY Zenon, <1>1, <2>1 DEF TurnAway
<1>2. ASSUME ClaimOrReplay(w, m), Accepted(Home[w], m)
      PROVE  \/ Begins(w, m)
             \/ /\ starts' = starts
                /\ \E h : worker' = [worker EXCEPT ![w] = h] /\ h.pc # "send"
  <2> DEFINE rec == dedup[Home[w]][DedupKeyOf(m)]
             h == At("publish", m, rec.sig, IF rec.state = "Done" THEN "success" ELSE "failure")
  <2>1. h.pc # "send"
    BY DEF At
  <2>2. CASE Blocks(m, rec)
    <3>1. worker' = [worker EXCEPT ![w] = h] /\ starts' = starts
      BY <1>2, <2>2 DEF ClaimOrReplay
    <3> HIDE DEF h
    <3> QED BY Zenon, <2>1, <3>1
  <2>3. CASE ~Blocks(m, rec)
    BY <1>0, <1>2, <2>3 DEF ClaimOrReplay, Begins
  <2> QED BY <2>2, <2>3
<1>3. CASE HandleSubmit(w, m)
  BY <1>1, <1>2, <1>3, ScreenVerdicts DEF HandleSubmit, Accepted
<1>4. CASE HandleMint(w, m)
  BY <1>1, <1>2, <1>4, ScreenVerdicts DEF HandleMint, Accepted
<1>5. CASE HandleCancel(w, m)
  <2>1. CASE TurnAway(w, m, ScreenCancel(Home[w], m))
    BY <1>1, <2>1, ScreenVerdicts
  <2>2. CASE worker' = [worker EXCEPT ![w] = At("publish", m, NoSig, "success")] /\ starts' = starts
    <3>1. At("publish", m, NoSig, "success").pc # "send"
      BY DEF At
    <3> QED BY Zenon, <2>2, <3>1
  <2> QED BY <1>5, <2>1, <2>2 DEF HandleCancel
<1>6. CASE HandleStatus(w, m)
  <2>1. CASE TurnAway(w, m, ScreenStatus(m))
    BY <1>1, <2>1, ScreenVerdicts
  <2>2. CASE worker' = [worker EXCEPT ![w] = At("query", m, NoSig, "failure")] /\ starts' = starts
    <3>1. At("query", m, NoSig, "failure").pc # "send"
      BY DEF At
    <3> QED BY Zenon, <2>2, <3>1
  <2> QED BY <1>6, <2>1, <2>2 DEF HandleStatus
<1>7. CASE HandleUnknownSubject(w, m)
  BY <1>1, <1>7 DEF HandleUnknownSubject
<1> QED
  BY <1>3, <1>4, <1>5, <1>6, <1>7 DEF Handle

\* No other step counts a start.
LEMMA StartsElsewhere ==
  ASSUME \/ \E m \in Msg : PublishEnvelope(m) \/ Pull(m)
         \/ \E w \in Worker : Continue(w) \/ SignAndSubmit(w) \/ ResolveConfirmation(w)
         \/ \E r \in Replica : Cleanup(r) \/ Reconnect(r)
         \/ \E s \in Sig : Land(s)
         \/ Tick
         \/ UNCHANGED vars
  PROVE  starts' = starts
BY ZenonT(30) DEF PublishEnvelope, Pull, Continue, SignAndSubmit, ResolveConfirmation, RecordOutcome,
       AuditRejection, RetrySubmit, FinishSubmit, FinishMintSend, QuerySignatureStatus,
       PublishResult, Ack, Cleanup, Reconnect, Land, Tick, vars

\* Of a message that was accepted every static check was true.
LEMMA AcceptedScreened ==
  ASSUME NEW r, NEW m \in Msg, Accepted(r, m)
  PROVE  LET e == Env[m] IN
         /\ e.parses /\ e.role # "Unknown"
         /\ RequireSigned \/ e.subject = "mint" => e.auth = "Verified"
         /\ \/ e.subject = "mint" /\ e.role \in {"AggregatorBridge", "MeterService"}
            \/ e.subject = "submit" /\ e.txOk /\ e.policyOk /\ e.keyId # "other"
<1>1. CASE Env[m].subject = "submit" /\ ScreenSubmit(r, m) = "accept"
  BY <1>1 DEF ScreenSubmit, EvaluateEnvelopeAuth, AuthDecision
<1>2. CASE Env[m].subject = "mint" /\ ScreenMint(r, m) = "accept"
  BY <1>2 DEF ScreenMint, EvaluateEnvelopeAuth, AuthDecision, RequireAny
<1> QED
  BY <1>1, <1>2 DEF Accepted

\* Only an envelope that passed every static check is signed or claims a slot
\* of the dedup_store, over all replicas, redeliveries and restarts.
THEOREM OnlyScreened == Spec => []OnlyScreenedSigned
<1>1. Init => OnlyScreenedSigned
  BY DEF Init, OnlyScreenedSigned
<1>2. TypeOK /\ OnlyScreenedSigned /\ [Next]_vars => OnlyScreenedSigned'
  <2> SUFFICES ASSUME TypeOK, OnlyScreenedSigned, [Next]_vars PROVE OnlyScreenedSigned'
    OBVIOUS
  <2>1. ASSUME starts' = starts PROVE OnlyScreenedSigned'
    BY <2>1 DEF OnlyScreenedSigned
  <2>2. ASSUME NEW w \in Worker, NEW m \in Msg, Begins(w, m) PROVE OnlyScreenedSigned'
    <3>1. \A n \in Msg : n # m => starts'[n] = starts[n]
      BY <2>2 DEF Begins, TypeOK
    <3>2. Accepted(Home[w], m)
      BY <2>2 DEF Begins
    <3> QED BY <3>1, <3>2, AcceptedScreened DEF OnlyScreenedSigned
  <2>3. CASE \E w \in Worker, m \in Msg : Handle(w, m)
    BY <2>1, <2>2, <2>3, StartsOnlyAccepted
  <2> QED BY <2>1, <2>3, StartsElsewhere DEF Next
<1> QED
  BY <1>1, <1>2, TypeCorrect, PTL DEF Spec

-----------------------------------------------------------------------------
(* Cancels.  A success reply to a cancel, sent or in hand, comes after its *)
(* marks in the cache.  The cache loses marks only by a restart, and other *)
(* replicas do not have them: hence the two hypotheses.                    *)

\* The caches c of all consumers block the submit that m names.
Blocked(c, m) == \A w \in Worker : <<"tx", Env[m].corr>> \in c[Home[w]]

\* What a handler's pc and reply say of the caches.
CancelKnown(c, h) ==
  /\ h.pc = "publish" /\ h.reply = "success" /\ Env[h.msg].subject = "cancel"
       => Blocked(c, h.msg)
  /\ h.pc = "audit" => h.reply = "failure"
  /\ h.pc = "query" => Env[h.msg].subject # "cancel"

CancelInv ==
  /\ \A a \in results : Env[a.msg].subject = "cancel" => Blocked(cache, a.msg)
  /\ \A w \in Worker : CancelKnown(cache, worker[w])

\* All slots belong to one replica, which is not restarted.
OneConsumer == MaxReconnects = 0 /\ \A u, w \in Worker : Home[u] = Home[w]

\* A step that forgets no mark, adds no reply and leaves known handlers.
LEMMA CancelStep ==
  ASSUME CancelInv, \A w \in Worker : cache[Home[w]] \subseteq cache'[Home[w]],
         results' = results,
         \A w \in Worker : worker'[w] = worker[w] \/ CancelKnown(cache', worker'[w])
  PROVE  CancelInv'
<1>1. \A m : Blocked(cache, m) => Blocked(cache', m)
  BY DEF Blocked
<1>2. \A h : CancelKnown(cache, h) => CancelKnown(cache', h)
  BY <1>1 DEF CancelKnown
<1>3. \A w \in Worker : CancelKnown(cache', worker'[w])
  BY <1>2 DEF CancelInv
<1> QED
  BY <1>1, <1>3 DEF CancelInv

\* Replacing one handler by a known one.
LEMMA CancelUpdate ==
  ASSUME TypeOK, CancelInv, NEW w \in Worker, NEW h, worker' = [worker EXCEPT ![w] = h],
         CancelKnown(cache', h), results' = results,
         \A u \in Worker : cache[Home[u]] \subseteq cache'[Home[u]]
  PROVE  CancelInv'
<1>1. \A u \in Worker : worker'[u] = worker[u] \/ worker'[u] = h
  BY DEF TypeOK
<1> QED
  BY <1>1, CancelStep

\* The handlers that actions put in a slot.
LEMMA CancelAt ==
  ASSUME NEW c, NEW m, NEW sig
  PROVE  /\ \A pc \in {"ack", "audit", "publish"} : CancelKnown(c, At(pc, m, sig, "failure"))
         /\ CancelKnown(c, Idle) /\ CancelKnown(c, Claiming(m))
         /\ Env[m].subject # "cancel" => \A reply : CancelKnown(c, At("publish", m, sig, reply))
         /\ Env[m].subject # "cancel" => CancelKnown(c, At("query", m, sig, "failure"))
BY DEF CancelKnown, At, Idle, Claiming

\* A handler that starts keeps it: only an accepted cancel replies success, after
\* its marks.
LEMMA CancelHandle ==
  ASSUME TypeOK, CancelInv, OneConsumer, NEW w \in Worker, NEW m \in Msg, Handle(w, m)
  PROVE  CancelInv'
<1>0. results' = results
  BY DEF Handle, HandleSubmit, HandleMint, HandleCancel, HandleStatus,
         HandleUnknownSubject, Take
<1>1. ASSUME NEW v \in {"ack", "audit", "publish", "accept"}, TurnAway(w, m, v)
      PROVE  CancelInv'
  <2>1. /\ v \in {"ack", "audit", "publish"} /\ cache' = cache
        /\ worker' = [worker EXCEPT ![w] = At(v, m, NoSig, "failure")]
    BY <1>1 DEF TurnAway, stores
  <2>2. CancelKnown(cache', At(v, m, NoSig, "failure"))
    BY <2>1, CancelAt
  <2> QED BY Zenon, <1>0, <2>1, <2>2, CancelUpdate
<1>2. ASSUME ClaimOrReplay(w, m), cache' = cache, Env[m].subject # "cancel"
      PROVE  CancelInv'
  <2>1. \/ worker' = [worker EXCEPT ![w] = Claiming(m)]
        \/ \E sig, reply : worker' = [worker EXCEPT ![w] = At("publish", m, sig, reply)]
    BY <1>2 DEF ClaimOrReplay
  <2>2. CASE worker' = [worker EXCEPT ![w] = Claiming(m)]
    BY Zenon, <1>0, <1>2, <2>2, CancelAt, CancelUpdate
  <2>3. CASE \E sig, reply : worker' = [worker EXCEPT ![w] = At("publish", m, sig, reply)]
    <3>1. PICK sig, reply : worker' = [worker EXCEPT ![w] = At("publish", m, sig, reply)]
      BY Zenon, <2>3
    <3>2. CancelKnown(cache', At("publish", m, sig, reply))
      BY Zenon, <1>2, CancelAt
    <3> QED BY Zenon, <1>0, <1>2, <3>1, <3>2, CancelUpdate
  <2> QED BY <2>1, <2>2, <2>3
<1>3. CASE HandleSubmit(w, m)
  BY <1>1, <1>2, <1>3, ScreenVerdicts DEF HandleSubmit
<1>4. CASE HandleMint(w, m)
  BY <1>1, <1>2, <1>4, ScreenVerdicts DEF HandleMint
<1>5. CASE HandleCancel(w, m)
  <2>1. CASE TurnAway(w, m, ScreenCancel(Home[w], m))
    BY <1>1, <2>1, ScreenVerdicts
  <2>2. CASE /\ cache' = [cache EXCEPT ![Home[w]] = @ \cup Marks(m)]
             /\ worker' = [worker EXCEPT ![w] = At("publish", m, NoSig, "success")]
    <3>1. \A u \in Worker : Home[u] = Home[w] /\ Home[u] \in Replica
      BY StaticAssumption DEF OneConsumer
    <3>2. \A u \in Worker : cache'[Home[u]] = cache[Home[u]] \cup Marks(m)
      BY <2>2, <3>1 DEF TypeOK
    <3>3. Blocked(cache', m)
      BY <3>2 DEF Blocked, Marks
    <3>4. CancelKnown(cache', At("publish", m, NoSig, "success"))
      BY <3>3 DEF CancelKnown, At
    <3> QED BY Zenon, <1>0, <2>2, <3>2, <3>4, CancelUpdate
  <2> QED BY <1>5, <2>1, <2>2 DEF HandleCancel
<1>6. CASE HandleStatus(w, m)
  <2>1. CASE TurnAway(w, m, ScreenStatus(m))
    BY <1>1, <2>1, ScreenVerdicts
  <2>2. CASE worker' = [worker EXCEPT ![w] = At("query", m, NoSig, "failure")] /\ cache' = cache
    <3>1. CancelKnown(cache', At("query", m, NoSig, "failure"))
      BY <1>6, CancelAt DEF HandleStatus
    <3> QED BY Zenon, <1>0, <2>2, <3>1, CancelUpdate
  <2> QED BY <1>6, <2>1, <2>2 DEF HandleStatus, stores
<1>7. CASE HandleUnknownSubject(w, m)
  BY <1>1, <1>7 DEF HandleUnknownSubject
<1> QED
  BY Zenon, <1>3, <1>4, <1>5, <1>6, <1>7 DEF Handle

\* A handler that continues keeps it: the cache only grows, and a reply that goes
\* out was in hand.
LEMMA CancelContinue ==
  ASSUME TypeOK, CancelInv, NEW w \in Worker,
         Continue(w) \/ SignAndSubmit(w) \/ ResolveConfirmation(w)
  PROVE  CancelInv'
<1> DEFINE h == worker[w]
<1>0. h \in Handler /\ WellFormed(h) /\ CancelKnown(cache, h)
  BY DEF TypeOK, CancelInv
<1>1. ASSUME NEW pc \in {"publish", "send", "confirm"}, cache' = cache, results' = results,
             worker' = [worker EXCEPT ![w].pc = pc], pc = "publish" => h.reply = "failure"
      PROVE  CancelInv'
  <2> DEFINE g == [h EXCEPT !.pc = pc]
  <2>1. worker' = [worker EXCEPT ![w] = g] /\ g.pc = pc /\ g.reply = h.reply
    BY <1>0, <1>1 DEF TypeOK, Handler
  <2> HIDE DEF g
  <2>2. CancelKnown(cache', g)
    BY <1>1, <2>1 DEF CancelKnown
  <2> QED BY Zenon, <1>1, <2>1, <2>2, CancelUpdate
<1>2. ASSUME NEW ok \in BOOLEAN, RecordOutcome(w, ok), Env[h.msg].subject # "cancel"
      PROVE  CancelInv'
  <2>1. results' = results /\ \A u \in Worker : cache[Home[u]] \subseteq cache'[Home[u]]
    BY <1>2, StaticAssumption DEF RecordOutcome, TypeOK
  <2>2. PICK sig, reply : worker' = [worker EXCEPT ![w] = At("publish", h.msg, sig, reply)]
    BY Zenon, <1>2 DEF RecordOutcome
  <2>3. CancelKnown(cache', At("publish", h.msg, sig, reply))
    BY <1>2, CancelAt
  <2> QED BY Zenon, <2>1, <2>2, <2>3, CancelUpdate
<1>3. CASE AuditRejection(w)
  BY <1>0, <1>1, <1>3 DEF AuditRejection, CancelKnown, stores
<1>4. CASE RetrySubmit(w)
  BY <1>1, <1>4 DEF RetrySubmit, stores
<1>5. CASE FinishSubmit(w)
  BY Zenon, <1>2, <1>5 DEF FinishSubmit
<1>6. CASE FinishMintSend(w)
  BY Zenon, <1>1, <1>2, <1>6 DEF FinishMintSend, stores
<1>7. CASE QuerySignatureStatus(w)
  <2>1. PICK reply : worker' = [worker EXCEPT ![w] = At("publish", h.msg, NoSig, reply)]
    BY Zenon, <1>7 DEF QuerySignatureStatus
  <2>0. Env[h.msg].subject # "cancel"
    BY <1>0, <1>7 DEF QuerySignatureStatus, CancelKnown
  <2>2. CancelKnown(cache', At("publish", h.msg, NoSig, reply))
    BY Zenon, <2>0, CancelAt
  <2> QED BY Zenon, <1>7, <2>1, <2>2, CancelUpdate DEF QuerySignatureStatus, stores
<1>8. CASE PublishResult(w)
  <2>1. cache' = cache /\ worker' = [worker EXCEPT ![w] = At("ack", h.msg, NoSig, "failure")]
    BY <1>8 DEF PublishResult, stores
  <2>2. \A u \in Worker : CancelKnown(cache', worker'[u])
    BY <2>1, CancelAt DEF CancelInv, TypeOK
  <2>3. ASSUME NEW a \in results', Env[a.msg].subject = "cancel" PROVE Blocked(cache', a.msg)
    <3>1. CASE a \in results
      BY <2>1, <2>3, <3>1 DEF CancelInv
    <3>2. CASE h.reply = "success" /\ a = [msg |-> h.msg, sig |-> h.sig]
      <4>1. a.msg = h.msg
        BY <3>2
      <4> QED BY <1>0, <1>8, <2>1, <2>3, <3>2, <4>1 DEF PublishResult, CancelKnown
    <3> QED BY <1>8, <2>3, <3>1, <3>2 DEF PublishResult
  <2> QED BY <2>2, <2>3 DEF CancelInv
<1>9. CASE \E arrives \in BOOLEAN : Ack(w, arrives)
  BY ZenonT(30), <1>9, CancelAt, CancelUpdate DEF Ack, stores
<1>10. CASE SignAndSubmit(w)
  <2>1. PICK sig : worker' = [worker EXCEPT ![w].pc = "sent", ![w].tries = @ + 1, ![w].sig = sig]
    BY Zenon, <1>10 DEF SignAndSubmit
  <2>2. \A u \in Worker : worker'[u] = worker[u] \/ worker'[u].pc = "sent"
    BY <1>0, <2>1 DEF TypeOK, Handler
  <2>3. \A u \in Worker : worker'[u] = worker[u] \/ CancelKnown(cache', worker'[u])
    BY <2>2 DEF CancelKnown
  <2> QED BY Zenon, <1>10, <2>3, CancelStep DEF SignAndSubmit, stores
<1>11. CASE ResolveConfirmation(w)
  BY <1>0, <1>2, <1>11 DEF ResolveConfirmation, WellFormed
<1> QED
  BY <1>3, <1>4, <1>5, <1>6, <1>7, <1>8, <1>9, <1>10, <1>11 DEF Continue

\* The other steps keep it; without restarts none forgets a mark.
LEMMA CancelRest ==
  ASSUME TypeOK, CancelInv, OneConsumer,
         \/ \E m \in Msg : PublishEnvelope(m) \/ Pull(m)
         \/ \E r \in Replica : Cleanup(r) \/ Reconnect(r)
         \/ \E s \in Sig : Land(s)
         \/ Tick
         \/ UNCHANGED vars
  PROVE  CancelInv'
<1>1. ASSUME worker' = worker, cache' = cache, results' = results PROVE CancelInv'
  BY <1>1, CancelStep
<1>2. ASSUME NEW r \in Replica, Reconnect(r) PROVE FALSE
  BY <1>2 DEF Reconnect, TypeOK, OneConsumer
<1>3. CASE Tick
  <2>1. \A w \in Worker : /\ worker'[w].pc = worker[w].pc
                          /\ worker'[w].msg = worker[w].msg
                          /\ worker'[w].reply = worker[w].reply
    BY <1>3 DEF Tick, TypeOK, Handler
  <2>2. \A w \in Worker : CancelKnown(cache', worker'[w])
    BY <1>3, <2>1 DEF Tick, CancelKnown, CancelInv
  <2> QED BY <1>3, <2>2, CancelStep DEF Tick
<1> QED
  BY <1>1, <1>2, <1>3 DEF PublishEnvelope, Pull, Cleanup, Land, stores, vars

\* A handler that continues, and every other step, begins no signing from idle.
LEMMA BeginsOnlyHandle ==
  ASSUME TypeOK, NEW w \in Worker, worker[w].pc = "idle", worker'[w].pc = "send",
         [Next]_vars
  PROVE  \E m \in Msg : Begins(w, m)
<1>1. ASSUME NEW u \in Worker, Continue(u) \/ SignAndSubmit(u) \/ ResolveConfirmation(u)
      PROVE  worker'[w] = worker[w]
  <2>1. worker[u].pc # "idle"
    BY ZenonT(30), <1>1 DEF Continue, SignAndSubmit, ResolveConfirmation, AuditRejection, RetrySubmit,
                FinishSubmit, FinishMintSend, QuerySignatureStatus, PublishResult, Ack
  <2>2. \A v \in Worker : v # u => worker'[v] = worker[v]
    BY Zenon, <1>1 DEF Continue, SignAndSubmit, ResolveConfirmation, AuditRejection, RetrySubmit,
                FinishSubmit, FinishMintSend, QuerySignatureStatus, PublishResult, Ack,
                RecordOutcome, TypeOK
  <2> QED BY <2>1, <2>2
<1>2. CASE \/ \E m \in Msg : PublishEnvelope(m) \/ Pull(m)
           \/ \E r \in Replica : Cleanup(r)
           \/ \E s \in Sig : Land(s)
           \/ UNCHANGED vars
  BY Zenon, <1>2 DEF PublishEnvelope, Pull, Cleanup, Land, vars
<1>3. ASSUME NEW r \in Replica, Reconnect(r) PROVE FALSE
  BY <1>3 DEF Reconnect, Idle, At
<1>4. CASE Tick
  BY ZenonT(30), <1>4 DEF Tick, TypeOK, Handler
<1>5. ASSUME NEW u \in Worker, NEW m \in Msg, Handle(u, m) PROVE Begins(w, m)
  <2>1. \A v \in Worker : v # u => worker'[v] = worker[v]
    BY <1>5, StartsOnlyAccepted DEF Begins, TypeOK
  <2>2. u = w
    BY <2>1
  <2>3. ASSUME NEW h, worker' = [worker EXCEPT ![u] = h], h.pc # "send" PROVE FALSE
    BY <2>2, <2>3 DEF TypeOK
  <2> QED BY <1>5, <2>2, <2>3, StartsOnlyAccepted
<1> QED
  BY <1>1, <1>2, <1>3, <1>4, <1>5 DEF Next

\* One consumer that is not restarted never begins to sign a submit or a mint
\* after the cancel of its correlation id was answered with success.
THEOREM CancelsBlock == ASSUME OneConsumer PROVE Spec => CancelBlocksLaterSubmit
<1>1. Init => CancelInv
  <2>1. CancelKnown(cache, Idle)
    BY CancelAt
  <2> QED BY <2>1 DEF Init, CancelInv
<1>2. TypeOK /\ CancelInv /\ [Next]_vars => CancelInv'
  <2> SUFFICES ASSUME TypeOK, CancelInv, [Next]_vars PROVE CancelInv'
    OBVIOUS
  <2> QED BY CancelHandle, CancelContinue, CancelRest DEF Next
<1>3. TypeOK /\ CancelInv /\ [Next]_vars =>
        \A w \in Worker, a \in results :
          /\ Env[a.msg].subject = "cancel"
          /\ worker[w].pc = "idle" /\ worker'[w].pc = "send"
          => Env[worker'[w].msg].corr # Env[a.msg].corr
  <2> SUFFICES ASSUME TypeOK, CancelInv, [Next]_vars, NEW w \in Worker, NEW a \in results,
                      Env[a.msg].subject = "cancel", worker[w].pc = "idle",
                      worker'[w].pc = "send"
               PROVE  Env[worker'[w].msg].corr # Env[a.msg].corr
    OBVIOUS
  <2>1. PICK m \in Msg : Begins(w, m)
    BY BeginsOnlyHandle
  <2>2. worker'[w].msg = m
    BY Zenon, <2>1 DEF Begins, TypeOK, Claiming
  <2>3. <<"tx", Env[m].corr>> \notin cache[Home[w]]
    BY <2>1 DEF Begins, Accepted, ScreenSubmit, ScreenMint, InCache
  <2>4. <<"tx", Env[a.msg].corr>> \in cache[Home[w]]
    BY DEF CancelInv, Blocked
  <2> QED BY <2>2, <2>3, <2>4
<1> QED
  BY <1>1, <1>2, <1>3, TypeCorrect, PTL DEF Spec, CancelBlocksLaterSubmit

-----------------------------------------------------------------------------
(* StartsBounded says nothing of the copies still buffered, each of which  *)
(* may become a start.  Paid counts both against the time that passed: as  *)
(* long as the message is fresh, every copy ever pulled has used up one    *)
(* lease, but for the running one.                                         *)

Paid(st, s, b, a, l, L) ==
  /\ st = "absent" => s = 0 /\ b = 0 /\ a = 0 /\ l = 0
  /\ a <= StaleAfter => (s + b) * L <= a + l
  /\ s * L <= StaleAfter + L

StartsInv ==
  \A m \in Msg : Paid(stream[m], starts[m], buf[m], age[m], lease[m], LeaseOf(m))

\* The nonlinear arithmetic behind Paid.
LEMMA MulFacts ==
  /\ \A a, L \in Nat : a * L \in Nat /\ (a + 1) * L = a * L + L
  /\ \A a, b, L \in Nat : a <= b => a * L <= b * L
<1>1. \A a, L \in Nat : a * L \in Nat /\ (a + 1) * L = a * L + L
  BY SMT
<1>2. ASSUME NEW a \in Nat, NEW b \in Nat, NEW L \in Nat, a <= b PROVE a * L <= b * L
  BY <1>2, SMT
<1> QED
  BY <1>1, <1>2

\* Copies go away and the message moves on in the stream.
LEMMA PaidLess ==
  ASSUME NEW st, NEW st2, NEW s \in Nat, NEW b \in Nat, NEW b2 \in Nat, NEW a \in Nat,
         NEW l \in Nat, NEW L \in Nat, Paid(st, s, b, a, l, L), b2 <= b,
         st2 = "absent" => st = "absent"
  PROVE  Paid(st2, s, b2, a, l, L)
<1> DEFINE p == (s + b) * L
           q == (s + b2) * L
<1>1. p \in Nat /\ q \in Nat /\ q <= p
  <2>1. s + b \in Nat /\ s + b2 \in Nat /\ s + b2 <= s + b
    OBVIOUS
  <2> QED BY <2>1, MulFacts
<1>2. a <= StaleAfter => q <= a + l
  <2>1. a <= StaleAfter => p <= a + l
    BY DEF Paid
  <2> HIDE DEF p, q
  <2> QED BY <1>1, <2>1
<1> QED
  BY <1>2 DEF Paid

\* A copy becomes a start while the message is fresh.
LEMMA PaidStart ==
  ASSUME NEW st, NEW s \in Nat, NEW b \in Nat, NEW a \in Nat, NEW l \in Nat, NEW L \in Nat,
         Paid(st, s, b, a, l, L), b > 0, a <= StaleAfter, l <= L
  PROVE  Paid(st, s + 1, b - 1, a, l, L)
<1> DEFINE p == (s + b) * L
           q == (s + 1) * L
<1>1. p \in Nat /\ q \in Nat /\ q <= p
  <2>1. s + b \in Nat /\ s + 1 \in Nat /\ s + 1 <= s + b
    OBVIOUS
  <2> QED BY <2>1, MulFacts
<1>2. p <= a + l
  BY DEF Paid
<1>3. q <= StaleAfter + L
  <2> HIDE DEF p, q
  <2> QED BY <1>1, <1>2, DurationAssumption
<1>4. st # "absent"
  BY DEF Paid
<1>5. ((s + 1) + (b - 1)) * L = p
  <2>1. (s + 1) + (b - 1) = s + b
    OBVIOUS
  <2> QED BY <2>1
<1> HIDE DEF p
<1> QED
  BY <1>2, <1>3, <1>4, <1>5 DEF Paid

\* A pull starts a new lease when the old one has run out.
LEMMA PaidPull ==
  ASSUME NEW st, NEW s \in Nat, NEW b \in Nat, NEW a \in Nat, NEW L \in Nat,
         Paid(st, s, b, a, 0, L), st # "absent"
  PROVE  Paid(st, s, b + 1, a, L, L)
<1> DEFINE p == (s + b) * L
<1>1. p \in Nat /\ (s + (b + 1)) * L = p + L
  <2>1. s + b \in Nat /\ s + (b + 1) = (s + b) + 1
    OBVIOUS
  <2> QED BY <2>1, MulFacts
<1>2. a <= StaleAfter => p <= a
  BY DEF Paid
<1> HIDE DEF p
<1> QED
  BY <1>1, <1>2 DEF Paid

\* What the lease loses the age gains.
LEMMA PaidTick ==
  ASSUME NEW st, NEW s \in Nat, NEW b \in Nat, NEW a \in Nat, NEW l \in Nat, NEW L \in Nat,
         Paid(st, s, b, a, l, L)
  PROVE  Paid(st, s, b, IF st = "absent" \/ a > StaleAfter THEN a ELSE a + 1, Less(l), L)
<1> DEFINE p == (s + b) * L
<1>1. p \in Nat
  BY MulFacts
<1>2. st = "absent" => s = 0 /\ b = 0 /\ a = 0 /\ l = 0
  BY DEF Paid
<1>3. a <= StaleAfter => p <= a + l
  BY DEF Paid
<1>4. s * L <= StaleAfter + L
  BY DEF Paid
<1>5. StaleAfter \in Nat
  BY DurationAssumption
<1> HIDE DEF p
<1>6. CASE st = "absent"
  <2>1. Less(l) = l
    BY <1>2, <1>6 DEF Less
  <2> QED BY <1>6, <2>1
<1>7. CASE st # "absent"
  <2> DEFINE a2 == IF a > StaleAfter THEN a ELSE a + 1
  <2>1. a2 <= StaleAfter => p <= a2 + Less(l)
    BY <1>1, <1>3, <1>5 DEF Less
  <2> QED BY <1>4, <1>7, <2>1 DEF Paid, p
<1> QED
  BY <1>6, <1>7

-----------------------------------------------------------------------------
(* The steps.                                                              *)

\* What the type invariant says of one message.
LEMMA MsgTypes ==
  ASSUME TypeOK, NEW m \in Msg
  PROVE  /\ starts[m] \in Nat /\ buf[m] \in Nat /\ age[m] \in Nat /\ lease[m] \in Nat
         /\ LeaseOf(m) \in Nat /\ lease[m] <= LeaseOf(m)
BY EnvelopeFields, DurationAssumption DEF TypeOK

\* A step that pulls, starts and ages nothing.
LEMMA StartsLess ==
  ASSUME TypeOK, TypeOK', StartsInv, UNCHANGED <<starts, age, lease>>,
         \A m \in Msg : /\ buf'[m] <= buf[m]
                        /\ stream'[m] = "absent" => stream[m] = "absent"
  PROVE  StartsInv'
<1> SUFFICES ASSUME NEW m \in Msg
             PROVE  Paid(stream'[m], starts[m], buf'[m], age[m], lease[m], LeaseOf(m))
  BY DEF StartsInv
<1>1. Paid(stream[m], starts[m], buf[m], age[m], lease[m], LeaseOf(m))
  BY DEF StartsInv
<1>2. buf'[m] \in Nat
  BY DEF TypeOK
<1> QED
  BY Zenon, <1>1, <1>2, MsgTypes, PaidLess

\* Starting a handler takes a copy out of the buffer.
LEMMA TakeLess ==
  ASSUME TypeOK, NEW w \in Worker, NEW m \in Msg, Take(w, m)
  PROVE  /\ UNCHANGED <<stream, age, lease>>
         /\ \A n \in Msg : buf'[n] <= buf[n]
BY DEF Take, TypeOK

\* handle_submit and handle_mint past their checks: the message is fresh.
LEMMA StartsClaim ==
  ASSUME TypeOK, TypeOK', StartsInv, NEW w \in Worker, NEW m \in Msg,
         ~Stale(m), Take(w, m), ClaimOrReplay(w, m)
  PROVE  StartsInv'
<1>1. CASE starts' = starts
  BY Zenon, <1>1, TakeLess, StartsLess
<1>2. CASE starts' = [starts EXCEPT ![m] = @ + 1]
  <2> SUFFICES ASSUME NEW n \in Msg
               PROVE  Paid(stream'[n], starts'[n], buf'[n], age'[n], lease'[n], LeaseOf(n))
    BY Zenon DEF StartsInv
  <2>0. Paid(stream[n], starts[n], buf[n], age[n], lease[n], LeaseOf(n))
    BY DEF StartsInv
  <2>1. UNCHANGED <<stream, age, lease>>
    BY ZenonT(30), TakeLess
  <2>2. CASE n # m
    <3>1. starts'[n] = starts[n] /\ buf'[n] = buf[n]
      BY ZenonT(30), <1>2, <2>2 DEF Take, TypeOK
    <3> QED BY <2>0, <2>1, <3>1
  <2>3. CASE n = m
    <3>1. starts'[n] = starts[n] + 1 /\ buf'[n] = buf[n] - 1 /\ buf[n] > 0
      BY <1>2, <2>3 DEF Take, TypeOK
    <3>2. age[n] <= StaleAfter
      BY <2>3, MsgTypes, DurationAssumption DEF Stale
    <3>3. Paid(stream[n], starts[n] + 1, buf[n] - 1, age[n], lease[n], LeaseOf(n))
      BY <2>0, <3>1, <3>2, MsgTypes, PaidStart
    <3> QED BY <2>1, <3>1, <3>3
  <2> QED BY Zenon, <2>2, <2>3
<1> QED
  BY <1>1, <1>2 DEF ClaimOrReplay

\* A handler that starts keeps the balance: a start uses up a buffered copy,
\* and a stale one is not signed.
LEMMA StartsHandle ==
  ASSUME TypeOK, TypeOK', StartsInv, NEW w \in Worker, NEW m \in Msg, Handle(w, m)
  PROVE  StartsInv'
<1>1. CASE Take(w, m) /\ starts' = starts
  BY <1>1, TakeLess, StartsLess
<1>2. CASE HandleSubmit(w, m)
  <2>1. ScreenSubmit(Home[w], m) = "accept" => ~Stale(m)
    BY ZenonT(30) DEF ScreenSubmit
  <2> QED BY <1>1, <1>2, <2>1, StartsClaim DEF HandleSubmit, TurnAway
<1>3. CASE HandleMint(w, m)
  <2>1. ScreenMint(Home[w], m) = "accept" => ~Stale(m)
    BY Zenon DEF ScreenMint
  <2> QED BY <1>1, <1>3, <2>1, StartsClaim DEF HandleMint, TurnAway
<1>4. CASE HandleCancel(w, m)
  BY <1>1, <1>4 DEF HandleCancel, TurnAway
<1>5. CASE HandleStatus(w, m)
  BY <1>1, <1>5 DEF HandleStatus, TurnAway
<1>6. CASE HandleUnknownSubject(w, m)
  BY <1>1, <1>6 DEF HandleUnknownSubject, TurnAway
<1> QED
  BY <1>2, <1>3, <1>4, <1>5, <1>6 DEF Handle

\* The steps that leave the message's bookkeeping alone.
LEMMA StartsFrame ==
  ASSUME StartsInv, UNCHANGED <<jetstream, starts>>
  PROVE  StartsInv'
BY DEF StartsInv, jetstream

\* The continuation of a handler starts nothing.
LEMMA StartsContinue ==
  ASSUME TypeOK, TypeOK', StartsInv, NEW w \in Worker,
         Continue(w) \/ SignAndSubmit(w) \/ ResolveConfirmation(w)
  PROVE  StartsInv'
<1>1. CASE \E arrives \in BOOLEAN : Ack(w, arrives)
  <2>1. UNCHANGED <<starts, age, lease, buf>>
    BY <1>1 DEF Ack
  <2>2. \A m \in Msg : stream'[m] = "absent" => stream[m] = "absent"
    BY <1>1 DEF Ack, TypeOK
  <2>3. \A m \in Msg : buf'[m] <= buf[m]
    BY <2>1, MsgTypes
  <2> QED BY <2>1, <2>2, <2>3, StartsLess
<1>2. CASE ~\E arrives \in BOOLEAN : Ack(w, arrives)
  <2>1. UNCHANGED <<jetstream, starts>>
    BY Zenon, <1>2 DEF Continue, SignAndSubmit, ResolveConfirmation, RecordOutcome, AuditRejection,
                RetrySubmit, FinishSubmit, FinishMintSend, QuerySignatureStatus, PublishResult
  <2> QED BY <2>1, StartsFrame
<1> QED
  BY <1>1, <1>2

\* A pull pays for its copy with a new lease, time turns lease into age; the
\* rest only loses copies.
LEMMA StartsRest ==
  ASSUME TypeOK, TypeOK', StartsInv,
         \/ \E m \in Msg : PublishEnvelope(m) \/ Pull(m)
         \/ \E r \in Replica : Cleanup(r) \/ Reconnect(r)
         \/ \E s \in Sig : Land(s)
         \/ Tick
  PROVE  StartsInv'
<1>1. ASSUME NEW m \in Msg, PublishEnvelope(m) PROVE StartsInv'
  <2>1. UNCHANGED <<starts, age, lease, buf>>
    BY <1>1 DEF PublishEnvelope
  <2>2. \A n \in Msg : stream'[n] = "absent" => stream[n] = "absent"
    BY <1>1 DEF PublishEnvelope, TypeOK
  <2>3. \A n \in Msg : buf'[n] <= buf[n]
    BY <2>1, MsgTypes
  <2> QED BY <2>1, <2>2, <2>3, StartsLess
<1>2. ASSUME NEW m \in Msg, Pull(m) PROVE StartsInv'
  <2> SUFFICES ASSUME NEW n \in Msg
               PROVE  Paid(stream'[n], starts'[n], buf'[n], age'[n], lease'[n], LeaseOf(n))
    BY DEF StartsInv
  <2>0. Paid(stream[n], starts[n], buf[n], age[n], lease[n], LeaseOf(n))
    BY DEF StartsInv
  <2>1. UNCHANGED <<stream, starts, age>>
    BY ZenonT(30), <1>2 DEF Pull
  <2>2. CASE n # m
    <3>1. lease'[n] = lease[n] /\ buf'[n] = buf[n]
      BY <1>2, <2>2 DEF Pull, TypeOK
    <3> QED BY <2>0, <2>1, <3>1
  <2>3. CASE n = m
    <3>1. /\ lease'[n] = LeaseOf(n) /\ buf'[n] = buf[n] + 1
          /\ lease[n] = 0 /\ stream[n] # "absent"
      BY <1>2, <2>3 DEF Pull, TypeOK
    <3>2. Paid(stream[n], starts[n], buf[n], age[n], 0, LeaseOf(n))
      BY Zenon, <2>0, <3>1
    <3>3. Paid(stream[n], starts[n], buf[n] + 1, age[n], LeaseOf(n), LeaseOf(n))
      BY Zenon, <3>1, <3>2, MsgTypes, PaidPull
    <3> QED BY Zenon, <2>1, <3>1, <3>3
  <2> QED BY Zenon, <2>2, <2>3
<1>3. ASSUME NEW r \in Replica, Reconnect(r) PROVE StartsInv'
  <2>1. UNCHANGED <<stream, starts, age, lease>>
    BY Zenon, <1>3 DEF Reconnect
  <2>2. \A n \in Msg : buf'[n] <= buf[n]
    <3>1. PICK lost \in SUBSET Msg : buf' = [m \in Msg |-> IF m \in lost THEN 0 ELSE buf[m]]
      BY <1>3 DEF Reconnect
    <3>2. buf \in [Msg -> Nat]
      BY Zenon DEF TypeOK
    <3> QED BY <3>1, <3>2
  <2> QED BY Zenon, <2>1, <2>2, StartsLess
<1>4. CASE Tick
  <2> SUFFICES ASSUME NEW n \in Msg
               PROVE  Paid(stream'[n], starts'[n], buf'[n], age'[n], lease'[n], LeaseOf(n))
    BY ZenonT(30) DEF StartsInv
  <2>0. Paid(stream[n], starts[n], buf[n], age[n], lease[n], LeaseOf(n))
    BY DEF StartsInv
  <2>1. /\ UNCHANGED <<stream, starts, buf>> /\ lease'[n] = Less(lease[n])
        /\ age'[n] = IF stream[n] = "absent" \/ age[n] > StaleAfter THEN age[n] ELSE age[n] + 1
    BY <1>4 DEF Tick
  <2>2. Paid(stream[n], starts[n], buf[n],
             IF stream[n] = "absent" \/ age[n] > StaleAfter THEN age[n] ELSE age[n] + 1,
             Less(lease[n]), LeaseOf(n))
    BY ZenonT(30), <2>0, MsgTypes, PaidTick
  <2> QED BY Zenon, <2>1, <2>2
<1>5. CASE (\E r \in Replica : Cleanup(r)) \/ (\E s \in Sig : Land(s))
  BY Zenon, <1>5, StartsFrame DEF Cleanup, Land
<1> QED
  BY <1>1, <1>2, <1>3, <1>4, <1>5

\* The balance of an absent message is 0.
LEMMA StartsInit == Init => StartsInv
<1> SUFFICES ASSUME Init, NEW m \in Msg
             PROVE  Paid("absent", 0, 0, 0, 0, LeaseOf(m))
  BY DEF Init, StartsInv
<1>1. (0 + 0) * LeaseOf(m) = 0 /\ 0 * LeaseOf(m) = 0
  BY EnvelopeFields
<1> QED
  BY <1>1, EnvelopeFields, DurationAssumption DEF Paid

\* Every step of the consumer keeps the balance of every message.
LEMMA StartsNext == TypeOK /\ TypeOK' /\ StartsInv /\ [Next]_vars => StartsInv'
<1> SUFFICES ASSUME TypeOK, TypeOK', StartsInv, [Next]_vars PROVE StartsInv'
  BY ZenonT(30)
<1>1. CASE UNCHANGED vars
  BY <1>1 DEF vars, StartsInv
<1>2. CASE Next
  BY <1>2, StartsHandle, StartsContinue, StartsRest DEF Next
<1> QED
  BY <1>1, <1>2

\* The deliveries of a message that reach sign_and_submit, over all replicas and
\* restarts, never exceed the leases that fit in the staleness window, plus one.
THEOREM StartsAreBounded == Spec => []StartsBounded
<1>1. StartsInv => StartsBounded
  BY DEF StartsInv, StartsBounded, Paid
<1>2. Spec => []StartsInv
  BY TypeCorrect, StartsInit, StartsNext, PTL DEF Spec
<1> QED
  BY <1>1, <1>2, PTL

\* At most one delivery of a mint begins to sign.
OneMintStart == \A m \in Msg : Env[m].subject = "mint" => starts[m] <= 1

\* A mint is signed by at most one delivery, whatever is lost, redelivered or
\* restarted: the lease of the mint consumer (ack_wait) is longer than the
\* staleness window.
THEOREM MintSignedOnce == Spec => []OneMintStart
<1>1. TypeOK /\ StartsBounded => OneMintStart
  <2> SUFFICES ASSUME TypeOK, StartsBounded, NEW m \in Msg, Env[m].subject = "mint",
                      starts[m] >= 2
               PROVE  FALSE
    BY MsgTypes DEF OneMintStart
  <2> DEFINE L == LeaseOf(m)
             p == starts[m] * L
  <2>1. L \in Nat /\ StaleAfter \in Nat /\ StaleAfter < L
    BY DurationAssumption DEF LeaseOf
  <2>2. 2 * L <= p /\ p \in Nat
    BY <2>1, MsgTypes, MulFacts
  <2>3. p <= StaleAfter + L
    BY DEF StartsBounded
  <2> HIDE DEF L, p
  <2> QED BY <2>1, <2>2, <2>3
<1> QED
  BY <1>1, TypeCorrect, StartsAreBounded, PTL

-----------------------------------------------------------------------------
(* Replies.  RepliesTruthful speaks of replies that were sent.  Its        *)
(* inductive form also says why the next reply will be true: what a        *)
(* handler has in hand, and what a Done record would replay, happened too. *)

\* Happened of a given cluster state c.
HappenedIn(c, m, s) ==
  /\ s \in Sig
  /\ \E n \in Msg : /\ Env[n].subject = Env[m].subject
                    /\ n = m \/ (Keyed(m) /\ Env[n].key = Env[m].key)
                    /\ s[1] = Env[n].tx
  /\ c[s] \in IF Env[m].subject = "mint" THEN {"landed"} ELSE {"accepted", "landed"}

HasEffect(m) == Env[m].subject \in {"submit", "mint"}

\* A reply in hand is true; a signature in hand was taken by the cluster.
HandlerTrue(c, h) ==
  /\ h.pc = "publish" /\ h.reply = "success" /\ HasEffect(h.msg)
       => HappenedIn(c, h.msg, h.sig)
  /\ h.pc \in {"sent", "confirm"} /\ h.sig # NoSig
       => h.sig \in Sig /\ h.sig[1] = Env[h.msg].tx /\ c[h.sig] # "none"
  /\ h.pc = "audit" => h.reply = "failure"
  /\ h.pc = "query" => ~HasEffect(h.msg)

\* Whoever a Done record is replayed to, it is true.
RecordTrue(c, k, rec) ==
  rec.state = "Done" =>
    \A m \in Msg : Keyed(m) /\ DedupKeyOf(m) = k => HappenedIn(c, m, rec.sig)

ResultTrue(c, a) == HasEffect(a.msg) => HappenedIn(c, a.msg, a.sig)

TruthInv ==
  /\ \A a \in results : ResultTrue(chain, a)
  /\ \A w \in Worker : HandlerTrue(chain, worker[w])
  /\ \A r \in Replica, k \in DedupKey : RecordTrue(chain, k, dedup[r][k])

\* The cluster forgets nothing.
Grows(c, d) ==
  \A s \in Sig : /\ c[s] = "landed" => d[s] = "landed"
                 /\ c[s] = "accepted" => d[s] \in {"accepted", "landed"}

\* What is true of a reply, a handler or a record stays true as the cluster
\* takes and executes more transactions.
LEMMA GrowthKeepsTruth ==
  ASSUME NEW c \in [Sig -> {"none", "accepted", "landed"}], NEW d, Grows(c, d)
  PROVE  /\ \A m, s : HappenedIn(c, m, s) => HappenedIn(d, m, s)
         /\ \A a : ResultTrue(c, a) => ResultTrue(d, a)
         /\ \A h : HandlerTrue(c, h) => HandlerTrue(d, h)
         /\ \A k, rec : RecordTrue(c, k, rec) => RecordTrue(d, k, rec)
<1>1. \A m, s : HappenedIn(c, m, s) => HappenedIn(d, m, s)
  BY DEF HappenedIn, Grows
<1>2. \A a : ResultTrue(c, a) => ResultTrue(d, a)
  BY <1>1 DEF ResultTrue
<1>3. \A s \in Sig : c[s] # "none" => d[s] # "none"
  BY DEF Grows
<1>4. \A h : HandlerTrue(c, h) => HandlerTrue(d, h)
  BY <1>1, <1>3 DEF HandlerTrue
<1>5. \A k, rec : RecordTrue(c, k, rec) => RecordTrue(d, k, rec)
  BY ZenonT(30), <1>1 DEF RecordTrue
<1> QED
  BY Zenon, <1>1, <1>2, <1>4, <1>5

\* A step of one handler: only its own record, its result and its dedup slot
\* have to be looked at.
LEMMA TruthStep ==
  ASSUME TypeOK, TruthInv, Grows(chain, chain'), NEW w \in Worker,
         worker' \in [Worker -> Handler],
         \A u \in Worker \ {w} : worker'[u] = worker[u],
         HandlerTrue(chain', worker'[w]),
         \A a \in results' : a \in results \/ ResultTrue(chain', a),
         \A r \in Replica, k \in DedupKey :
           dedup'[r][k] = dedup[r][k] \/ RecordTrue(chain', k, dedup'[r][k])
  PROVE  TruthInv'
<1>1. /\ \A a : ResultTrue(chain, a) => ResultTrue(chain', a)
      /\ \A h : HandlerTrue(chain, h) => HandlerTrue(chain', h)
      /\ \A k, rec : RecordTrue(chain, k, rec) => RecordTrue(chain', k, rec)
  <2>1. chain \in [Sig -> {"none", "accepted", "landed"}]
    BY DEF TypeOK
  <2> QED BY Zenon, <2>1, GrowthKeepsTruth
<1>2. \A a \in results' : ResultTrue(chain', a)
  BY ZenonT(30), <1>1 DEF TruthInv
<1>3. \A u \in Worker : HandlerTrue(chain', worker'[u])
  BY ZenonT(30), <1>1 DEF TruthInv
<1>4. \A r \in Replica, k \in DedupKey : RecordTrue(chain', k, dedup'[r][k])
  BY <1>1 DEF TruthInv
<1> QED
  BY <1>2, <1>3, <1>4 DEF TruthInv

\* A step that leaves the cluster alone is a case of growth.
LEMMA GrowsRefl ==
  ASSUME NEW c \in [Sig -> {"none", "accepted", "landed"}]
  PROVE  Grows(c, c)
BY DEF Grows

\* A step of one handler that publishes nothing and leaves stores and cluster alone.
LEMMA TruthLocal ==
  ASSUME TypeOK, TypeOK', TruthInv, NEW w \in Worker,
         UNCHANGED <<dedup, chain, results>>,
         \A u \in Worker \ {w} : worker'[u] = worker[u],
         HandlerTrue(chain, worker'[w])
  PROVE  TruthInv'
<1>1. Grows(chain, chain') /\ HandlerTrue(chain', worker'[w])
  BY GrowsRefl DEF TypeOK
<1>2. worker' \in [Worker -> Handler]
  BY DEF TypeOK
<1> QED
  BY <1>1, <1>2, TruthStep

\* The fields of a handler that holds no claim.
LEMMA AtFields ==
  ASSUME NEW pc, NEW m, NEW sig, NEW reply
  PROVE  /\ At(pc, m, sig, reply).pc = pc /\ At(pc, m, sig, reply).msg = m
         /\ At(pc, m, sig, reply).sig = sig /\ At(pc, m, sig, reply).reply = reply
BY DEF At

\* A handler that holds no claim answers for its reply only.
LEMMA AtTrue ==
  ASSUME NEW c, NEW pc, NEW m, NEW sig, NEW reply,
         pc \notin {"sent", "confirm"}, pc = "audit" => reply = "failure",
         pc = "query" => ~HasEffect(m),
         pc = "publish" /\ reply = "success" /\ HasEffect(m) => HappenedIn(c, m, sig)
  PROVE  HandlerTrue(c, At(pc, m, sig, reply))
<1> DEFINE h == At(pc, m, sig, reply)
<1>1. h.pc = pc /\ h.msg = m /\ h.sig = sig /\ h.reply = reply
  BY AtFields
<1> HIDE DEF h
<1>2. HandlerTrue(c, h)
  BY <1>1 DEF HandlerTrue
<1> QED
  BY <1>2 DEF h

\* An idle slot claims nothing.
LEMMA IdleTrue == ASSUME NEW c PROVE HandlerTrue(c, Idle)
BY AtTrue DEF Idle

\* A step that only moves one handler keeps the truth invariant if the new
\* handler record is true.
LEMMA TruthUpdate ==
  ASSUME TypeOK, TypeOK', TruthInv, NEW w \in Worker, NEW h,
         UNCHANGED <<dedup, chain, results>>,
         worker' = [worker EXCEPT ![w] = h], HandlerTrue(chain, h)
  PROVE  TruthInv'
<1>1. worker'[w] = h /\ \A u \in Worker \ {w} : worker'[u] = worker[u]
  BY DEF TypeOK
<1> QED
  BY <1>1, TruthLocal

\* claim_or_replay replays only what happened for the same effect.
LEMMA TruthClaim ==
  ASSUME TypeOK, TypeOK', TruthInv, NEW w \in Worker, NEW m \in Msg, HasEffect(m),
         ClaimOrReplay(w, m), UNCHANGED <<chain, results>>
  PROVE  TruthInv'
<1> DEFINE r == Home[w]
           k == DedupKeyOf(m)
           rec == dedup[r][k]
<1>1. CASE Blocks(m, rec)
  <2> DEFINE reply == IF rec.state = "Done" THEN "success" ELSE "failure"
  <2>1. dedup' = dedup /\ worker' = [worker EXCEPT ![w] = At("publish", m, rec.sig, reply)]
    BY Zenon, <1>1 DEF ClaimOrReplay
  <2>2. reply = "success" => HappenedIn(chain, m, rec.sig)
    <3>1. r \in Replica /\ k \in DedupKey /\ Keyed(m)
      BY <1>1, StaticAssumption, DedupKeyType DEF Blocks, HasEffect
    <3>2. RecordTrue(chain, k, rec)
      BY Zenon, <3>1 DEF TruthInv
    <3> QED BY ZenonT(30), <3>1, <3>2 DEF RecordTrue
  <2> DEFINE h == At("publish", m, rec.sig, reply)
  <2>3. HandlerTrue(chain, h)
    <3> HIDE DEF reply, rec
    <3> QED BY Zenon, <2>2, AtTrue
  <2>4. worker' = [worker EXCEPT ![w] = h] /\ UNCHANGED <<dedup, chain, results>>
    BY <2>1
  <2> HIDE DEF h
  <2> QED BY ZenonT(30), <2>3, <2>4, TruthUpdate
<1>2. CASE ~Blocks(m, rec)
  <2> DEFINE new == [state |-> "InFlight", ttl |-> ClaimTTL, sig |-> NoSig]
  <2>1. /\ worker' = [worker EXCEPT ![w] = Claiming(m)]
        /\ dedup' = IF Keyed(m) THEN [dedup EXCEPT ![r][k] = new] ELSE dedup
    BY ZenonT(30), <1>2 DEF ClaimOrReplay
  <2>2. worker'[w] = Claiming(m) /\ \A u \in Worker \ {w} : worker'[u] = worker[u]
    BY <2>1 DEF TypeOK
  <2>3. HandlerTrue(chain', worker'[w])
    <3>1. HandlerTrue(chain', Claiming(m))
      BY ZenonT(30) DEF HandlerTrue, Claiming
    <3> QED BY <2>2, <3>1
  <2>4. ASSUME NEW q \in Replica, NEW l \in DedupKey
        PROVE  dedup'[q][l] = dedup[q][l] \/ RecordTrue(chain', l, dedup'[q][l])
    <3>1. RecordTrue(chain', l, new)
      BY DEF RecordTrue
    <3> HIDE DEF new
    <3>2. dedup'[q][l] = dedup[q][l] \/ dedup'[q][l] = new
      BY <2>1 DEF TypeOK
    <3> QED BY Zenon, <3>1, <3>2
  <2>5. Grows(chain, chain') /\ worker' \in [Worker -> Handler]
    BY Zenon, GrowsRefl DEF TypeOK
  <2> QED BY Zenon, <2>2, <2>3, <2>4, <2>5, TruthStep
<1> QED
  BY <1>1, <1>2

\* The end of an attempt: a success concerns the handler's own transaction, which
\* the cluster took (submit) or executed (mint).
LEMMA TruthOutcome ==
  ASSUME TypeOK, TypeOK', TruthInv, NEW w \in Worker, NEW ok \in BOOLEAN,
         worker[w].msg \in Msg, RecordOutcome(w, ok),
         ok => /\ worker[w].sig \in Sig /\ worker[w].sig[1] = Env[worker[w].msg].tx
               /\ chain[worker[w].sig] \in IF Env[worker[w].msg].subject = "mint"
                                           THEN {"landed"} ELSE {"accepted", "landed"}
  PROVE  TruthInv'
<1> DEFINE h == worker[w]
           m == h.msg
           r == Home[w]
           k == DedupKeyOf(m)
           new == IF ok THEN [state |-> "Done", ttl |-> h.left, sig |-> h.sig] ELSE NoRecord
<1>1. /\ worker' = [worker EXCEPT ![w] = IF ok THEN At("publish", m, h.sig, "success")
                                         ELSE At("publish", m, NoSig, "failure")]
      /\ dedup' = IF ~Keyed(m) THEN dedup ELSE [dedup EXCEPT ![r][k] = new]
      /\ UNCHANGED <<chain, results>>
  BY DEF RecordOutcome
<1>2. ok => HappenedIn(chain, m, h.sig)
  BY ZenonT(30) DEF HappenedIn
<1>3. HandlerTrue(chain', worker'[w]) /\ \A u \in Worker \ {w} : worker'[u] = worker[u]
  <2> DEFINE g == IF ok THEN At("publish", m, h.sig, "success")
                  ELSE At("publish", m, NoSig, "failure")
  <2>1. HandlerTrue(chain, g)
    <3>1. CASE ok
      BY Zenon, <1>2, <3>1, AtTrue
    <3>2. CASE ~ok
      BY Zenon, <3>2, AtTrue
    <3> QED BY Zenon, <3>1, <3>2
  <2>2. worker' = [worker EXCEPT ![w] = g] /\ chain' = chain
    BY <1>1
  <2> HIDE DEF g
  <2> QED BY Zenon, <2>1, <2>2 DEF TypeOK
<1>4. ASSUME NEW q \in Replica, NEW l \in DedupKey
      PROVE  dedup'[q][l] = dedup[q][l] \/ RecordTrue(chain', l, dedup'[q][l])
  <2>1. CASE ~(Keyed(m) /\ q = r /\ l = k)
    <3> HIDE DEF new, m, k
    <3> QED BY ZenonT(30), <1>1, <2>1 DEF TypeOK
  <2>2. CASE Keyed(m) /\ q = r /\ l = k
    <3>1. dedup'[q][l] = new
      <4> HIDE DEF new, m
      <4> QED BY ZenonT(30), <1>1, <2>2 DEF TypeOK
    <3>2. RecordTrue(chain', l, new)
      <4>1. CASE ~ok
        BY ZenonT(30), <4>1 DEF RecordTrue, NoRecord
      <4>2. CASE ok
        <5> SUFFICES ASSUME NEW n \in Msg, Keyed(n), DedupKeyOf(n) = DedupKeyOf(m)
                     PROVE  HappenedIn(chain', n, h.sig)
          BY ZenonT(30), <2>2, <4>2 DEF RecordTrue
        <5>1. Env[n].subject = Env[m].subject /\ Env[n].key = Env[m].key
          BY ZenonT(30) DEF DedupKeyOf
        <5> QED BY <1>1, <4>2, <5>1 DEF HappenedIn
      <4> QED BY ZenonT(30), <4>1, <4>2
    <3> QED BY ZenonT(30), <3>1, <3>2
  <2> QED BY ZenonT(30), <2>1, <2>2
<1>5. Grows(chain, chain') /\ worker' \in [Worker -> Handler]
  BY ZenonT(30), <1>1, GrowsRefl DEF TypeOK
<1> QED
  BY ZenonT(30), <1>1, <1>3, <1>4, <1>5, TruthStep

\* Every handler keeps the truth invariant up to its first await.
LEMMA TruthHandle ==
  ASSUME TypeOK, TypeOK', TruthInv, NEW w \in Worker, NEW m \in Msg, Handle(w, m)
  PROVE  TruthInv'
<1>0. UNCHANGED <<chain, results>>
  BY Zenon DEF Handle, HandleSubmit, HandleMint, HandleCancel, HandleStatus,
         HandleUnknownSubject, Take
<1>1. ASSUME NEW v \in {"ack", "audit", "publish", "accept"}, TurnAway(w, m, v)
      PROVE  TruthInv'
  <2>1. worker' = [worker EXCEPT ![w] = At(v, m, NoSig, "failure")]
        /\ UNCHANGED <<dedup, chain, results>>
    BY <1>0, <1>1 DEF TurnAway, stores
  <2>2. HandlerTrue(chain, At(v, m, NoSig, "failure"))
    BY Zenon, AtTrue
  <2> QED BY ZenonT(30), <2>1, <2>2, TruthUpdate
<1>2. CASE HandleSubmit(w, m)
  BY Zenon, <1>0, <1>1, <1>2, ScreenVerdicts, TruthClaim DEF HandleSubmit, HasEffect
<1>3. CASE HandleMint(w, m)
  BY ZenonT(30), <1>0, <1>1, <1>3, ScreenVerdicts, TruthClaim DEF HandleMint, HasEffect
<1>4. CASE HandleCancel(w, m)
  <2>1. CASE TurnAway(w, m, ScreenCancel(Home[w], m))
    BY <1>1, <2>1, ScreenVerdicts
  <2>2. CASE worker' = [worker EXCEPT ![w] = At("publish", m, NoSig, "success")] /\ dedup' = dedup
    <3>1. ~HasEffect(m)
      BY <1>4 DEF HandleCancel, HasEffect
    <3>2. UNCHANGED <<dedup, chain, results>>
      BY <1>0, <2>2
    <3>3. HandlerTrue(chain, At("publish", m, NoSig, "success"))
      BY <3>1, AtTrue
    <3> QED BY ZenonT(30), <2>2, <3>2, <3>3, TruthUpdate
  <2> QED BY Zenon, <1>4, <2>1, <2>2 DEF HandleCancel
<1>5. CASE HandleStatus(w, m)
  <2>1. CASE TurnAway(w, m, ScreenStatus(m))
    BY <1>1, <2>1, ScreenVerdicts
  <2>2. CASE worker' = [worker EXCEPT ![w] = At("query", m, NoSig, "failure")] /\ dedup' = dedup
    <3>1. UNCHANGED <<dedup, chain, results>>
      BY <1>0, <2>2
    <3>2. HandlerTrue(chain, At("query", m, NoSig, "failure"))
      BY Zenon, <1>5, AtTrue DEF HandleStatus, HasEffect
    <3> QED BY Zenon, <2>2, <3>1, <3>2, TruthUpdate
  <2> QED BY ZenonT(30), <1>5, <2>1, <2>2 DEF HandleStatus, stores
<1>6. CASE HandleUnknownSubject(w, m)
  BY <1>1, <1>6 DEF HandleUnknownSubject
<1> QED
  BY <1>2, <1>3, <1>4, <1>5, <1>6 DEF Handle

\* sign_and_submit returns only signatures that the cluster took.
LEMMA TruthSend ==
  ASSUME TypeOK, TypeOK', TruthInv, NEW w \in Worker, SignAndSubmit(w)
  PROVE  TruthInv'
<1> DEFINE h == worker[w]
           e == Env[h.msg]
<1>1. h \in Handler /\ h.pc = "send" /\ h.msg \in Msg
  BY BusyMsg DEF TypeOK, SignAndSubmit
<1>2. PICK b \in (IF e.blockhash = NoHash THEN Blockhash ELSE {e.blockhash}),
           outcome \in {"ok", "refused", "unclear"} :
        /\ chain' = IF outcome = "refused" THEN chain
                    ELSE [chain EXCEPT ![<<e.tx, b>>] =
                            IF @ = "none" THEN "accepted" ELSE @]
        /\ worker' = [worker EXCEPT
             ![w].pc = "sent", ![w].tries = @ + 1,
             ![w].sig = Answer(outcome, <<e.tx, b>>)]
  BY Zenon DEF SignAndSubmit
<1> DEFINE s == <<e.tx, b>>
<1>3. s \in Sig /\ s[1] = e.tx
  BY <1>1, EnvelopeFields DEF Sig
<1>4. Grows(chain, chain') /\ (outcome = "ok" => chain'[s] # "none")
  <2> HIDE DEF s
  <2> QED BY ZenonT(30), <1>2, <1>3 DEF Grows, TypeOK, s
<1>5. /\ worker'[w].pc = "sent" /\ worker'[w].msg = h.msg
      /\ worker'[w].sig = Answer(outcome, s)
      /\ \A u \in Worker \ {w} : worker'[u] = worker[u]
  <2> DEFINE g == [h EXCEPT !.pc = "sent", !.tries = @ + 1, !.sig = Answer(outcome, s)]
  <2>1. worker \in [Worker -> Handler] /\ worker' = [worker EXCEPT ![w] = g]
    BY Zenon, <1>2 DEF TypeOK
  <2>2. g.pc = "sent" /\ g.msg = h.msg /\ g.sig = Answer(outcome, s)
    BY <1>1 DEF Handler
  <2> HIDE DEF g
  <2> QED BY <2>1, <2>2
<1>6. HandlerTrue(chain', worker'[w])
  <2> HIDE DEF s
  <2> QED BY Zenon, <1>3, <1>4, <1>5 DEF HandlerTrue, Answer
<1>7. UNCHANGED <<dedup, results>> /\ worker' \in [Worker -> Handler]
  BY DEF SignAndSubmit, stores, TypeOK
<1> QED
  BY ZenonT(30), <1>4, <1>5, <1>6, <1>7, TruthStep

\* Every continuation of a handler keeps the truth invariant: what it records
\* and publishes happened.
LEMMA TruthContinue ==
  ASSUME TypeOK, TypeOK', TruthInv, NEW w \in Worker,
         Continue(w) \/ ResolveConfirmation(w)
  PROVE  TruthInv'
<1> DEFINE h == worker[w]
<1>0. h \in Handler /\ WellFormed(h) /\ HandlerTrue(chain, h)
  BY DEF TypeOK, TruthInv
<1>1. CASE AuditRejection(w)
  <2>1. /\ worker' = [worker EXCEPT ![w].pc = "publish"] /\ h.pc = "audit"
        /\ UNCHANGED <<dedup, chain, results>>
    BY <1>1 DEF AuditRejection, stores
  <2>2. /\ worker'[w].pc = "publish" /\ worker'[w].reply = h.reply
        /\ \A u \in Worker \ {w} : worker'[u] = worker[u]
    BY <1>0, <2>1 DEF TypeOK, Handler
  <2>3. HandlerTrue(chain, worker'[w])
    BY <1>0, <2>1, <2>2 DEF HandlerTrue
  <2> QED BY <2>1, <2>2, <2>3, TruthLocal
<1>2. CASE RetrySubmit(w)
  <2>1. /\ worker' = [worker EXCEPT ![w].pc = "send"]
        /\ UNCHANGED <<dedup, chain, results>>
    BY <1>2 DEF RetrySubmit, stores
  <2>2. worker'[w].pc = "send" /\ \A u \in Worker \ {w} : worker'[u] = worker[u]
    BY ZenonT(30), <1>0, <2>1 DEF TypeOK, Handler
  <2>3. HandlerTrue(chain, worker'[w])
    BY Zenon, <2>2 DEF HandlerTrue
  <2> QED BY <2>1, <2>2, <2>3, TruthLocal
<1>3. CASE FinishSubmit(w)
  <2>1. h.pc = "sent" /\ Env[h.msg].subject = "submit" /\ RecordOutcome(w, h.sig # NoSig)
    BY Zenon, <1>3 DEF FinishSubmit
  <2>2. h.msg \in Msg
    BY <2>1, BusyMsg
  <2>3. h.sig # NoSig => /\ h.sig \in Sig /\ h.sig[1] = Env[h.msg].tx
                         /\ chain[h.sig] \in {"accepted", "landed"}
    BY Zenon, <1>0, <2>1 DEF HandlerTrue, TypeOK
  <2> QED BY ZenonT(30), <2>1, <2>2, <2>3, TruthOutcome
<1>4. CASE FinishMintSend(w)
  <2>1. h.pc = "sent" /\ h.msg \in Msg
    BY <1>4, BusyMsg DEF FinishMintSend
  <2>2. CASE h.sig = NoSig
    BY Zenon, <1>4, <2>1, <2>2, TruthOutcome DEF FinishMintSend
  <2>3. CASE h.sig # NoSig
    <3>1. /\ worker' = [worker EXCEPT ![w].pc = "confirm"]
          /\ UNCHANGED <<dedup, chain, results>>
      BY ZenonT(30), <1>4, <2>3 DEF FinishMintSend, stores
    <3>2. /\ worker'[w].pc = "confirm" /\ worker'[w].sig = h.sig /\ worker'[w].msg = h.msg
          /\ \A u \in Worker \ {w} : worker'[u] = worker[u]
      BY <1>0, <3>1 DEF TypeOK, Handler
    <3>3. HandlerTrue(chain, worker'[w])
      BY ZenonT(30), <1>0, <2>1, <2>3, <3>2 DEF HandlerTrue
    <3> QED BY <3>1, <3>2, <3>3, TruthLocal
  <2> QED BY <2>2, <2>3
<1>5. CASE QuerySignatureStatus(w)
  <2>1. PICK reply \in {"success", "failure"} :
          worker' = [worker EXCEPT ![w] = At("publish", h.msg, NoSig, reply)]
    BY Zenon, <1>5 DEF QuerySignatureStatus
  <2>2. ~HasEffect(h.msg) /\ UNCHANGED <<dedup, chain, results>>
    BY Zenon, <1>0, <1>5 DEF QuerySignatureStatus, HandlerTrue, stores
  <2>3. HandlerTrue(chain, At("publish", h.msg, NoSig, reply))
    BY <2>2, AtTrue
  <2> QED BY Zenon, <2>1, <2>2, <2>3, TruthUpdate
<1>6. CASE PublishResult(w)
  <2> DEFINE a == [msg |-> h.msg, sig |-> h.sig]
             g == At("ack", h.msg, NoSig, "failure")
  <2>1. worker' = [worker EXCEPT ![w] = g] /\ UNCHANGED <<dedup, chain>>
    BY Zenon, <1>6 DEF PublishResult, stores
  <2>2. HandlerTrue(chain, g)
    BY Zenon, AtTrue
  <2>3. HandlerTrue(chain', worker'[w]) /\ \A u \in Worker \ {w} : worker'[u] = worker[u]
    <3> HIDE DEF g
    <3> QED BY <2>1, <2>2 DEF TypeOK
  <2>4. \A x \in results' : x \in results \/ ResultTrue(chain', x)
    <3>1. results' = results \/ (h.reply = "success" /\ results' = results \cup {a})
      BY ZenonT(30), <1>6 DEF PublishResult
    <3>2. h.reply = "success" => ResultTrue(chain, a)
      BY ZenonT(30), <1>0, <1>6 DEF PublishResult, HandlerTrue, ResultTrue
    <3> HIDE DEF a
    <3> QED BY <2>1, <3>1, <3>2
  <2>5. Grows(chain, chain') /\ worker' \in [Worker -> Handler]
    BY <2>1, GrowsRefl DEF TypeOK
  <2> QED BY ZenonT(30), <2>1, <2>3, <2>4, <2>5, TruthStep
<1>7. CASE \E arrives \in BOOLEAN : Ack(w, arrives)
  <2>1. worker' = [worker EXCEPT ![w] = Idle] /\ UNCHANGED <<dedup, chain, results>>
    BY <1>7 DEF Ack, stores
  <2>2. HandlerTrue(chain, Idle)
    BY IdleTrue
  <2> QED BY Zenon, <2>1, <2>2, TruthUpdate
<1>8. CASE ResolveConfirmation(w)
  <2>1. PICK ok \in BOOLEAN : (ok => chain[h.sig] = "landed") /\ RecordOutcome(w, ok)
    BY <1>8 DEF ResolveConfirmation, Confirmed
  <2>2. h.pc = "confirm" /\ h.msg \in Msg /\ h.sig \in Sig /\ h.sig # NoSig
    BY ZenonT(30), <1>0, <1>8, BusyMsg, StaticAssumption DEF ResolveConfirmation, WellFormed
  <2>3. h.sig[1] = Env[h.msg].tx
    BY Zenon, <1>0, <2>2 DEF HandlerTrue
  <2> QED BY ZenonT(30), <2>1, <2>2, <2>3, TruthOutcome
<1> QED
  BY ZenonT(30), <1>1, <1>2, <1>3, <1>4, <1>5, <1>6, <1>7, <1>8 DEF Continue

\* The steps of no handler in particular: records and handlers age or vanish.
LEMMA TruthRest ==
  ASSUME TypeOK, TypeOK', TruthInv,
         \/ \E m \in Msg : PublishEnvelope(m) \/ Pull(m)
         \/ \E r \in Replica : Cleanup(r) \/ Reconnect(r)
         \/ \E s \in Sig : Land(s)
         \/ Tick
  PROVE  TruthInv'
<1>1. results' = results
  BY DEF PublishEnvelope, Pull, Cleanup, Reconnect, Land, Tick
<1>2. Grows(chain, chain')
  <2>1. ASSUME NEW s \in Sig, Land(s) PROVE Grows(chain, chain')
    BY ZenonT(30), <2>1 DEF Land, Grows, TypeOK
  <2>2. CASE chain' = chain
    BY <2>2, GrowsRefl DEF TypeOK
  <2> QED
    BY <2>1, <2>2 DEF PublishEnvelope, Pull, Cleanup, Reconnect, Tick
<1>3. \A r \in Replica, k \in DedupKey :
        \/ dedup'[r][k] = dedup[r][k]
        \/ dedup'[r][k].state = "Absent"
        \/ dedup'[r][k].state = dedup[r][k].state /\ dedup'[r][k].sig = dedup[r][k].sig
  <2>1. CASE dedup' = dedup
    BY <2>1
  <2>2. ASSUME NEW q \in Replica, Cleanup(q) \/ Reconnect(q)
        PROVE  \A r \in Replica, k \in DedupKey :
                 dedup'[r][k] = dedup[r][k] \/ dedup'[r][k].state = "Absent"
    <3>1. NoRecord.state = "Absent"
      BY Zenon DEF NoRecord
    <3>2. CASE Cleanup(q)
      BY ZenonT(30), <3>1, <3>2 DEF Cleanup, TypeOK
    <3>3. CASE Reconnect(q)
      BY <3>1, <3>3 DEF Reconnect, TypeOK
    <3> QED BY <2>2, <3>2, <3>3
  <2>3. ASSUME Tick, NEW r \in Replica, NEW k \in DedupKey
        PROVE  dedup'[r][k].state = dedup[r][k].state /\ dedup'[r][k].sig = dedup[r][k].sig
    <3>1. dedup[r][k] \in DedupRecord /\ dedup'[r][k] = [dedup[r][k] EXCEPT !.ttl = Less(@)]
      BY <2>3 DEF TypeOK, Tick
    <3> QED BY <3>1 DEF DedupRecord
  <2> QED
    BY ZenonT(30), <2>1, <2>2, <2>3 DEF PublishEnvelope, Pull, Land, stores
<1>4. \A w \in Worker :
        \/ worker'[w] = worker[w]
        \/ worker'[w] = Idle
        \/ /\ worker'[w].pc = worker[w].pc /\ worker'[w].msg = worker[w].msg
           /\ worker'[w].sig = worker[w].sig /\ worker'[w].reply = worker[w].reply
  <2>1. CASE worker' = worker
    BY <2>1
  <2>2. ASSUME NEW q \in Replica, Reconnect(q), NEW w \in Worker
        PROVE  worker'[w] = worker[w] \/ worker'[w] = Idle
    BY Zenon, <2>2 DEF Reconnect
  <2>3. ASSUME Tick, NEW w \in Worker
        PROVE  /\ worker'[w].pc = worker[w].pc /\ worker'[w].msg = worker[w].msg
               /\ worker'[w].sig = worker[w].sig /\ worker'[w].reply = worker[w].reply
    <3>1. worker[w] \in Handler /\ worker'[w] = [worker[w] EXCEPT !.left = Less(@)]
      BY <2>3 DEF TypeOK, Tick
    <3> QED BY <3>1 DEF Handler
  <2> QED
    BY Zenon, <2>1, <2>2, <2>3 DEF PublishEnvelope, Pull, Land, Cleanup
<1>5. /\ \A a : ResultTrue(chain, a) => ResultTrue(chain', a)
      /\ \A h : HandlerTrue(chain, h) => HandlerTrue(chain', h)
      /\ \A k, rec : RecordTrue(chain, k, rec) => RecordTrue(chain', k, rec)
  <2>1. chain \in [Sig -> {"none", "accepted", "landed"}]
    BY DEF TypeOK
  <2> QED BY <1>2, <2>1, GrowthKeepsTruth
<1>6. ASSUME NEW w \in Worker PROVE HandlerTrue(chain', worker'[w])
  <2>1. HandlerTrue(chain', worker[w])
    BY <1>5 DEF TruthInv
  <2>2. HandlerTrue(chain', Idle)
    BY IdleTrue
  <2> QED BY Zenon, <1>4, <2>1, <2>2 DEF HandlerTrue
<1>7. ASSUME NEW r \in Replica, NEW k \in DedupKey PROVE RecordTrue(chain', k, dedup'[r][k])
  <2>1. RecordTrue(chain', k, dedup[r][k])
    BY <1>5 DEF TruthInv
  <2> QED BY Zenon, <1>3, <2>1 DEF RecordTrue
<1> QED
  BY Zenon, <1>1, <1>5, <1>6, <1>7 DEF TruthInv

\* Nothing is claimed initially.
LEMMA TruthInit == Init => TruthInv
<1> SUFFICES ASSUME Init PROVE TruthInv
  OBVIOUS
<1>1. HandlerTrue(chain, Idle)
  BY IdleTrue
<1>2. \A k : RecordTrue(chain, k, NoRecord)
  BY DEF RecordTrue, NoRecord
<1> QED
  BY <1>1, <1>2 DEF Init, TruthInv

\* Every step of the consumer keeps the truth invariant.
LEMMA TruthNext == TypeOK /\ TypeOK' /\ TruthInv /\ [Next]_vars => TruthInv'
<1> SUFFICES ASSUME TypeOK, TypeOK', TruthInv, [Next]_vars PROVE TruthInv'
  OBVIOUS
<1>1. CASE UNCHANGED vars
  BY <1>1 DEF vars, TruthInv
<1>2. CASE Next
  BY ZenonT(30), <1>2, TruthHandle, TruthSend, TruthContinue, TruthRest DEF Next
<1> QED
  BY <1>1, <1>2

\* Every success reply to a submit or a mint names a transaction that happened
\* for its effect.  Nothing is assumed of timing: handlers may outlive their
\* claims, overlap, crash and be redelivered.
THEOREM RepliesAreTruthful == Spec => []RepliesTruthful
<1>1. TruthInv => RepliesTruthful
  BY Zenon DEF TruthInv, RepliesTruthful, ResultTrue, HasEffect, Happened, HappenedIn
<1>2. Spec => []TruthInv
  BY TypeCorrect, TruthInit, TruthNext, PTL DEF Spec
<1> QED
  BY <1>1, <1>2, PTL

=============================================================================
