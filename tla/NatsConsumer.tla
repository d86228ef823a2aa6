---------------------------- MODULE NatsConsumer ----------------------------
(***************************************************************************)
(* The NATS write path of the chain bridge (nats_consumer/consumer.rs):    *)
(* JetStream delivers an envelope under an ack_wait lease, a worker of     *)
(* some bridge replica runs the handler of its subject, and the handler    *)
(* signs and submits a transaction, replies and acks.                      *)
(*                                                                         *)
(* All handlers of a replica run in one tokio task, so a handler is        *)
(* interrupted only at an .await: each action below is the code between    *)
(* two awaits.  Time is a Tick that runs every timer down; a timestamp     *)
(* `now + d' of the code is kept as the time it has left, and is expired   *)
(* at 0.                                                                   *)
(***************************************************************************)
EXTENDS Naturals, FiniteSets

CONSTANTS
  Replica,        \* bridge processes pulling from the same durable consumers
  Worker,         \* concurrency slots of for_each_concurrent, all replicas
  Home,           \* [Worker -> Replica]
  Lane,           \* [Worker -> {"fast", "mint"}]: which consumer owns the slot
  Msg,            \* envelopes that publishers may put on CHAIN_TX
  Env,            \* [Msg -> Envelope]: their contents
  Corr,           \* correlation ids
  Key,            \* idempotency keys
  NoKey,          \* the empty idempotency key
  Tx,             \* transaction contents; for a mint, its (meter, window)
  Blockhash,      \* recent blockhashes
  NoHash,         \* Hash::default(): the bridge fills the blockhash in
  RequireSigned,  \* NatsAuthPolicy.require_signed
  AckWait,        \* ack_wait of chain-bridge-worker (30 s)
  MintAckWait,    \* ack_wait of chain-bridge-mint-worker (90 s)
  StaleAfter,     \* oldest envelope age that is still processed (55 s)
  ClaimTTL,       \* lifetime of a dedup_store record (120 s)
  MaxAttempts,    \* runs of sign_and_submit in the Retry loop (1 + take(3))
  Timely,         \* assume every handler is done before its claim expires
  MaxBuffered,    \* bound: copies of a message pulled and not yet handled
  MaxReconnects   \* bound: consumer restarts

VARIABLES
  stream,         \* JetStream's view of each message
  age,            \* now - created_at_ms, saturating above StaleAfter
  lease,          \* time before JetStream may deliver the message again
  buf,            \* copies pulled by some replica and waiting for a worker
  worker,         \* the handler running in each slot
  cache,          \* keys in the idempotency_cache of each replica
  dedup,          \* dedup_store of each replica
  chain,          \* what became of each signed transaction
  results,        \* success results that reached their reply subject
  starts,         \* history: deliveries of a message that began signing
  reconnects      \* number of restarts so far

vars == <<stream, age, lease, buf, worker, cache, dedup, chain, results,
          starts, reconnects>>
jetstream == <<stream, age, lease, buf>>
stores == <<cache, dedup>>

NoMsg == "none"
NoSig == <<"none">>

Subject == {"submit", "mint", "cancel", "status", "simulate"}
Role == {"Unknown", "TradingService", "AggregatorBridge", "MeterService", "Admin"}
Sig == Tx \X Blockhash

Envelope ==
  [subject : Subject, parses : BOOLEAN,
   auth : {"Verified", "Unsigned", "Failed"}, role : Role,
   corr : Corr, key : Key \cup {NoKey},
   tx : Tx, txOk : BOOLEAN, policyOk : BOOLEAN,
   keyId : {"platform_admin", "", "other"}, blockhash : Blockhash \cup {NoHash}]

PC == {"idle", "audit", "send", "sent", "confirm", "query", "publish", "ack"}

Handler ==
  [pc : PC, msg : Msg \cup {NoMsg}, left : 0..ClaimTTL, tries : 0..MaxAttempts,
   sig : Sig \cup {NoSig}, reply : {"success", "failure"}]

\* A slot that holds no claim; a handler that just claimed and is about to sign.
At(pc, m, sig, reply) ==
  [pc |-> pc, msg |-> m, left |-> 0, tries |-> 0, sig |-> sig, reply |-> reply]
Claiming(m) ==
  [pc |-> "send", msg |-> m, left |-> ClaimTTL, tries |-> 0, sig |-> NoSig,
   reply |-> "failure"]

Idle == At("idle", NoMsg, NoSig, "failure")

CacheKey == {"tx", "cancel"} \X Corr

DedupKey == {"submit", "mint"} \X Key
DedupRecord == [state : {"Absent", "InFlight", "Done"}, ttl : 0..ClaimTTL,
                sig : Sig \cup {NoSig}]
NoRecord == [state |-> "Absent", ttl |-> 0, sig |-> NoSig]

Result == [msg : Msg, sig : Sig \cup {NoSig}]

ASSUME StaticAssumption ==
  /\ Home \in [Worker -> Replica]
  /\ Lane \in [Worker -> {"fast", "mint"}]
  /\ Env \in [Msg -> Envelope]
  /\ NoMsg \notin Msg /\ NoKey \notin Key /\ NoHash \notin Blockhash
  /\ NoSig \notin Sig
  /\ RequireSigned \in BOOLEAN /\ Timely \in BOOLEAN
  /\ \A m \in Msg : Env[m].subject = "mint" =>
       Env[m].keyId = "platform_admin" /\ Env[m].blockhash = NoHash

\* The durations hard-coded in consumer.rs; a mint's lease is longer than the
\* staleness window.
ASSUME DurationAssumption ==
  /\ {AckWait, MintAckWait, ClaimTTL} \subseteq Nat \ {0} /\ StaleAfter \in Nat
  /\ {MaxAttempts, MaxBuffered} \subseteq Nat \ {0} /\ MaxReconnects \in Nat
  /\ StaleAfter < MintAckWait

LaneOf(m) == IF Env[m].subject = "mint" THEN "mint" ELSE "fast"
LeaseOf(m) == IF Env[m].subject = "mint" THEN MintAckWait ELSE AckWait

\* The effect-level key: the idempotency key in the namespace of its effect.
DedupKeyUnscoped(m) == <<"submit", Env[m].key>>   \* mutant: no namespace (F4)
DedupKeyOf(m) == <<Env[m].subject, Env[m].key>>
Keyed(m) == Env[m].key # NoKey

Less(n) == IF n = 0 THEN 0 ELSE n - 1

Init ==
  /\ stream = [m \in Msg |-> "absent"]
  /\ age = [m \in Msg |-> 0]
  /\ lease = [m \in Msg |-> 0]
  /\ buf = [m \in Msg |-> 0]
  /\ worker = [w \in Worker |-> Idle]
  /\ cache = [r \in Replica |-> {}]
  /\ dedup = [r \in Replica |-> [k \in DedupKey |-> NoRecord]]
  /\ chain = [s \in Sig |-> "none"]
  /\ results = {}
  /\ starts = [m \in Msg |-> 0]
  /\ reconnects = 0

-----------------------------------------------------------------------------
(* JetStream (external): publishing, leases and redelivery.               *)

\* A publisher stores the envelope in CHAIN_TX, stamped created_at = now.
PublishEnvelope(m) ==
  /\ stream[m] = "absent"
  /\ stream' = [stream EXCEPT ![m] = "pending"]
  /\ UNCHANGED <<age, lease, buf, worker, stores, chain, results, starts, reconnects>>

\* A pull hands a copy to a replica and starts the lease; an unacked message
\* is handed out again whenever its lease has run out.
Pull(m) ==
  /\ stream[m] = "pending" /\ lease[m] = 0 /\ buf[m] < MaxBuffered
  /\ buf' = [buf EXCEPT ![m] = @ + 1]
  /\ lease' = [lease EXCEPT ![m] = LeaseOf(m)]
  /\ UNCHANGED <<stream, age, worker, stores, chain, results, starts,
                 reconnects>>

\* for_each_concurrent starts a handler on a pulled copy in a free slot of
\* the consumer that filters its subject.
Take(w, m) ==
  /\ worker[w].pc = "idle" /\ buf[m] > 0 /\ Lane[w] = LaneOf(m)
  /\ buf' = [buf EXCEPT ![m] = @ - 1]
  /\ UNCHANGED <<stream, age, lease, chain, results, reconnects>>

-----------------------------------------------------------------------------
(* The checks a handler runs, in order, before its first await.  Each      *)
(* returns the pc at which the handler goes on: "ack" leaves without a     *)
(* reply, "publish" replies, "audit" audits the rejection and replies,     *)
(* "accept" passes every check.                                            *)

AuthDecision(check, require_signed) == require_signed => check = "Verified"

EvaluateEnvelopeAuth(e, force_signed) ==
  AuthDecision(e.auth, RequireSigned \/ force_signed)

\* ServiceRole::require_any of the blockchain-core crate.
RequireAny(role, roles) == role \in roles

InCache(r, kind, c) == <<kind, c>> \in cache[r]

StaleNever(m) == FALSE                          \* mutant: the check is dropped
Stale(m) == age[m] > StaleAfter

ScreenSubmit(r, m) ==
  LET e == Env[m] IN
  IF ~e.parses THEN "ack"
  ELSE IF ~EvaluateEnvelopeAuth(e, FALSE) THEN "audit"
  ELSE IF e.role = "Unknown" THEN "audit"
  ELSE IF InCache(r, "tx", e.corr) THEN "ack"
  ELSE IF Stale(m) THEN "audit"
  ELSE IF ~e.txOk THEN "publish"
  ELSE IF ~e.policyOk THEN "audit"
  ELSE IF e.keyId \notin {"platform_admin", ""} THEN "audit"
  ELSE "accept"

\* Mutant: a mint is held to the policy of the other subjects.
ScreenMintUnforced(r, m) ==
  LET e == Env[m] IN
  IF ~EvaluateEnvelopeAuth(e, FALSE) \/ ~e.parses \/ Stale(m) THEN "audit"
  ELSE "accept"

ScreenMint(r, m) ==
  LET e == Env[m] IN
  IF ~e.parses THEN "ack"
  ELSE IF ~EvaluateEnvelopeAuth(e, TRUE) THEN "audit"
  ELSE IF ~RequireAny(e.role, {"AggregatorBridge", "MeterService"}) THEN "audit"
  ELSE IF InCache(r, "tx", e.corr) THEN "ack"
  ELSE IF Stale(m) THEN "audit"
  ELSE "accept"

ScreenCancel(r, m) ==
  LET e == Env[m] IN
  IF ~e.parses THEN "ack"
  ELSE IF ~EvaluateEnvelopeAuth(e, FALSE) THEN "audit"
  ELSE IF e.role = "Unknown" THEN "audit"
  ELSE IF InCache(r, "cancel", e.corr) THEN "ack"
  ELSE IF Stale(m) THEN "audit"
  ELSE "accept"

ScreenStatus(m) ==
  LET e == Env[m] IN
  IF ~e.parses THEN "ack"
  ELSE IF ~EvaluateEnvelopeAuth(e, FALSE) THEN "audit"
  ELSE IF ~RequireAny(e.role, {"MeterService", "Admin"}) THEN "audit"
  ELSE "accept"

\* The handler leaves through one of its early returns; a reply says failure.
TurnAwayUnacked(w, m, verdict) ==               \* mutant: some returns do not ack
  /\ verdict # "accept"
  /\ worker' = [worker EXCEPT ![w] =
       IF verdict = "ack" THEN Idle ELSE At(verdict, m, NoSig, "failure")]
  /\ UNCHANGED <<stores, starts>>

TurnAway(w, m, verdict) ==
  /\ verdict # "accept"
  /\ worker' = [worker EXCEPT ![w] = At(verdict, m, NoSig, "failure")]
  /\ UNCHANGED <<stores, starts>>

\* Mutants: an InFlight record does not block; a Done record does not.
BlocksIfDone(m, rec) == Keyed(m) /\ rec.state = "Done" /\ rec.ttl > 0
BlocksIfInFlight(m, rec) == Keyed(m) /\ rec.state = "InFlight" /\ rec.ttl > 0

\* The record of m's key, if it has one, is there and unexpired.
Blocks(m, rec) == Keyed(m) /\ rec.state # "Absent" /\ rec.ttl > 0

\* claim_or_replay on the store of replica r: replay a Done, refuse an InFlight,
\* claim an absent or expired key (or an unkeyed message) and go on to sign.
ClaimOrReplay(w, m) ==
  LET r == Home[w]
      k == DedupKeyOf(m)
      rec == dedup[r][k]
  IN  \/ /\ Blocks(m, rec)
         /\ worker' = [worker EXCEPT ![w] =
              At("publish", m, rec.sig, IF rec.state = "Done" THEN "success" ELSE "failure")]
         /\ UNCHANGED <<dedup, starts>>
      \/ /\ ~Blocks(m, rec)
         /\ dedup' = IF Keyed(m)
                     THEN [dedup EXCEPT ![r][k] =
                             [state |-> "InFlight", ttl |-> ClaimTTL, sig |-> NoSig]]
                     ELSE dedup
         /\ worker' = [worker EXCEPT ![w] = Claiming(m)]
         /\ starts' = [starts EXCEPT ![m] = @ + 1]

HandleSubmit(w, m) ==
  /\ Env[m].subject = "submit" /\ Take(w, m)
  /\ \/ TurnAway(w, m, ScreenSubmit(Home[w], m))
     \/ /\ ScreenSubmit(Home[w], m) = "accept"
        /\ ClaimOrReplay(w, m) /\ UNCHANGED cache

HandleMint(w, m) ==
  /\ Env[m].subject = "mint" /\ Take(w, m)
  /\ \/ TurnAway(w, m, ScreenMint(Home[w], m))
     \/ /\ ScreenMint(Home[w], m) = "accept"
        /\ ClaimOrReplay(w, m) /\ UNCHANGED cache

MarksCancelOnly(m) == {<<"cancel", Env[m].corr>>}   \* mutant
Marks(m) == {<<"cancel", Env[m].corr>>, <<"tx", Env[m].corr>>}

\* Cancelling marks the correlation id in the cache; nothing looks for a
\* handler that is already signing it.
HandleCancel(w, m) ==
  /\ Env[m].subject = "cancel" /\ Take(w, m)
  /\ \/ TurnAway(w, m, ScreenCancel(Home[w], m))
     \/ /\ ScreenCancel(Home[w], m) = "accept"
        /\ cache' = [cache EXCEPT ![Home[w]] = @ \cup Marks(m)]
        /\ worker' = [worker EXCEPT ![w] = At("publish", m, NoSig, "success")]
        /\ UNCHANGED <<dedup, starts>>

HandleStatus(w, m) ==
  /\ Env[m].subject = "status" /\ Take(w, m)
  /\ \/ TurnAway(w, m, ScreenStatus(m))
     \/ /\ ScreenStatus(m) = "accept"
        /\ worker' = [worker EXCEPT ![w] = At("query", m, NoSig, "failure")]
        /\ UNCHANGED <<stores, starts>>

\* The default arm of the dispatch: chain.tx.simulate has no handler.
HandleUnknownSubject(w, m) ==
  /\ Env[m].subject = "simulate" /\ Take(w, m)
  /\ TurnAway(w, m, "ack")

-----------------------------------------------------------------------------
(* The handlers between their awaits.                                      *)

\* audit_rejection: best effort, a failed append never blocks the rejection.
\* The consumer never reads the log back; it is modelled in AuditLog.
AuditRejection(w) ==
  /\ worker[w].pc = "audit"
  /\ worker' = [worker EXCEPT ![w].pc = "publish"]
  /\ UNCHANGED <<jetstream, stores, chain, results, starts, reconnects>>

\* A pre-signed transaction (empty key id) must bring its own blockhash.
CanSend(e) == e.policyOk /\ (e.keyId = "platform_admin" \/ e.blockhash # NoHash)

AnswerAnyway(outcome, s) == s                   \* mutant: errors are swallowed
Answer(outcome, s) == IF outcome = "ok" THEN s ELSE NoSig

\* One run of sign_and_submit, up to the answer of send_transaction.  A
\* transaction without a blockhash gets a current one.  "refused" stands for
\* every failure before the cluster takes the transaction, "unclear" for an
\* error after it did.
SignAndSubmit(w) ==
  LET h == worker[w]
      e == Env[h.msg]
  IN /\ h.pc = "send"
     /\ \E b \in IF e.blockhash = NoHash THEN Blockhash ELSE {e.blockhash},
           outcome \in {"ok", "refused", "unclear"} :
          /\ CanSend(e) \/ outcome = "refused"
          /\ chain' = IF outcome = "refused" THEN chain
                      ELSE [chain EXCEPT ![<<e.tx, b>>] =
                              IF @ = "none" THEN "accepted" ELSE @]
          /\ worker' = [worker EXCEPT
               ![w].pc = "sent", ![w].tries = @ + 1,
               ![w].sig = Answer(outcome, <<e.tx, b>>)]
     /\ UNCHANGED <<jetstream, stores, results, starts, reconnects>>

\* The tail of handle_submit and handle_mint: a success is cached and recorded
\* Done, a failure removes the key's record, whoever holds it.
RecordOutcome(w, ok) ==
  LET h == worker[w]
      m == h.msg
      r == Home[w]
      k == DedupKeyOf(m)
  IN /\ cache' = IF ok THEN [cache EXCEPT ![r] = @ \cup {<<"tx", Env[m].corr>>}]
                 ELSE cache
     /\ dedup' = IF ~Keyed(m) THEN dedup
                 ELSE [dedup EXCEPT ![r][k] =
                         IF ok THEN [state |-> "Done", ttl |-> h.left, sig |-> h.sig]
                         ELSE NoRecord]
     /\ worker' = [worker EXCEPT ![w] =
          IF ok THEN At("publish", m, h.sig, "success")
                ELSE At("publish", m, NoSig, "failure")]
     /\ UNCHANGED <<jetstream, chain, results, starts, reconnects>>

MayRetryOnceMore(h) == h.sig = NoSig /\ h.tries <= MaxAttempts  \* mutant
MayRetry(h) == h.sig = NoSig /\ h.tries < MaxAttempts

\* Retry::spawn runs sign_and_submit again after any error.
RetrySubmit(w) ==
  LET h == worker[w] IN
  /\ h.pc = "sent" /\ Env[h.msg].subject = "submit"
  /\ MayRetry(h)
  /\ worker' = [worker EXCEPT ![w].pc = "send"]
  /\ UNCHANGED <<jetstream, stores, chain, results, starts, reconnects>>

\* Mutant: the last error is taken for a success.
FinishSubmitAlwaysOk(w) ==
  /\ worker[w].pc = "sent" /\ Env[worker[w].msg].subject = "submit"
  /\ RecordOutcome(w, TRUE)

FinishSubmit(w) ==
  LET h == worker[w] IN
  /\ h.pc = "sent" /\ Env[h.msg].subject = "submit"
  /\ ~MayRetry(h)
  /\ RecordOutcome(w, h.sig # NoSig)

\* A mint is never retried here: an error ends it, a signature is confirmed.
FinishMintSend(w) ==
  LET h == worker[w] IN
  /\ h.pc = "sent" /\ Env[h.msg].subject = "mint"
  /\ \/ /\ h.sig = NoSig
        /\ RecordOutcome(w, FALSE)
     \/ /\ h.sig # NoSig
        /\ worker' = [worker EXCEPT ![w].pc = "confirm"]
        /\ UNCHANGED <<jetstream, stores, chain, results, starts, reconnects>>

Confirmed(s) == chain[s] = "landed"

\* resolve_confirmation and the end of handle_mint.  Confirmed needs a status
\* with a slot and no error; Errored and Pending are failures.
ResolveConfirmation(w) ==
  LET h == worker[w] IN
  /\ h.pc = "confirm"
  /\ \E ok \in BOOLEAN :
       /\ ok => Confirmed(h.sig)
       /\ RecordOutcome(w, ok)

\* signature_status: a read, answered or failed.
QuerySignatureStatus(w) ==
  /\ worker[w].pc = "query"
  /\ \E reply \in {"success", "failure"} :
       worker' = [worker EXCEPT ![w] = At("publish", worker[w].msg, NoSig, reply)]
  /\ UNCHANGED <<jetstream, stores, chain, results, starts, reconnects>>

\* publish_result and its siblings: a failed publish is only logged.
PublishResult(w) ==
  LET h == worker[w] IN
  /\ h.pc = "publish"
  /\ \/ UNCHANGED results
     \/ /\ h.reply = "success"
        /\ results' = results \cup {[msg |-> h.msg, sig |-> h.sig]}
  /\ worker' = [worker EXCEPT ![w] = At("ack", h.msg, NoSig, "failure")]
  /\ UNCHANGED <<jetstream, stores, chain, starts, reconnects>>

\* msg.ack() or Term: settles the message unless it is lost on the way.
Ack(w, arrives) ==
  LET h == worker[w] IN
  /\ h.pc = "ack"
  /\ stream' = IF arrives THEN [stream EXCEPT ![h.msg] = "settled"] ELSE stream
  /\ worker' = [worker EXCEPT ![w] = Idle]
  /\ UNCHANGED <<age, lease, buf, stores, chain, results, starts, reconnects>>

-----------------------------------------------------------------------------
(* The rest of the system.                                                 *)

\* The 5 s cleanup task of replica r.  It holds the dedup_store itself, but
\* only a deep copy of the idempotency_cache, taken when the cache was empty.
Cleanup(r) ==
  /\ \E k \in DedupKey : dedup[r][k].state # "Absent" /\ dedup[r][k].ttl = 0
  /\ dedup' = [dedup EXCEPT ![r] = [k \in DedupKey |->
                 IF @[k].ttl = 0 THEN NoRecord ELSE @[k]]]
  /\ UNCHANGED <<jetstream, worker, cache, chain, results, starts, reconnects>>

\* The supervisor of main.rs replaces the consumer (or the process restarts):
\* running handlers are dropped, both stores start empty, pulled copies are lost.
Reconnect(r) ==
  /\ reconnects < MaxReconnects
  /\ reconnects' = reconnects + 1
  /\ worker' = [w \in Worker |-> IF Home[w] = r THEN Idle ELSE worker[w]]
  /\ cache' = [cache EXCEPT ![r] = {}]
  /\ dedup' = [dedup EXCEPT ![r] = [k \in DedupKey |-> NoRecord]]
  /\ \E lost \in SUBSET Msg : buf' = [m \in Msg |-> IF m \in lost THEN 0 ELSE buf[m]]
  /\ UNCHANGED <<stream, age, lease, chain, results, starts>>

\* The cluster executes an accepted mint (external).  Only mints are followed:
\* handle_submit never looks at the fate of what it sent.
Land(s) ==
  /\ chain[s] = "accepted"
  /\ \E m \in Msg : Env[m].subject = "mint" /\ Env[m].tx = s[1]
  /\ chain' = [chain EXCEPT ![s] = "landed"]
  /\ UNCHANGED <<jetstream, worker, stores, results, starts, reconnects>>

Signing(w) == worker[w].pc \in {"send", "sent", "confirm"}

\* One unit of time.  Under Timely no claim expires under a running handler.
Tick ==
  /\ Timely => \A w \in Worker : Signing(w) => worker[w].left > 1
  /\ age' = [m \in Msg |-> IF stream[m] = "absent" \/ age[m] > StaleAfter
                           THEN age[m] ELSE age[m] + 1]
  /\ lease' = [m \in Msg |-> Less(lease[m])]
  /\ worker' = [w \in Worker |-> [worker[w] EXCEPT !.left = Less(@)]]
  /\ dedup' = [r \in Replica |-> [k \in DedupKey |->
                 [dedup[r][k] EXCEPT !.ttl = Less(@)]]]
  /\ UNCHANGED <<stream, buf, cache, chain, results, starts, reconnects>>

Handle(w, m) ==
  \/ HandleSubmit(w, m) \/ HandleMint(w, m) \/ HandleCancel(w, m)
  \/ HandleStatus(w, m) \/ HandleUnknownSubject(w, m)

Continue(w) ==
  \/ AuditRejection(w) \/ RetrySubmit(w) \/ FinishSubmit(w) \/ FinishMintSend(w)
  \/ QuerySignatureStatus(w) \/ PublishResult(w)
  \/ \E arrives \in BOOLEAN : Ack(w, arrives)

Next ==
  \/ \E m \in Msg : PublishEnvelope(m) \/ Pull(m)
  \/ \E w \in Worker, m \in Msg : Handle(w, m)
  \/ \E w \in Worker : Continue(w) \/ SignAndSubmit(w) \/ ResolveConfirmation(w)
  \/ \E r \in Replica : Cleanup(r) \/ Reconnect(r)
  \/ \E s \in Sig : Land(s)
  \/ Tick

Spec == Init /\ [][Next]_vars

\* What the code's scheduling guarantees: time passes, the cleanup interval
\* fires, JetStream redelivers, for_each_concurrent serves its buffer in order,
\* a polled handler runs to its next await, and acks are not lost forever.
\* Nothing is assumed of Vault, the RPC node or the cluster: SignAndSubmit,
\* ResolveConfirmation and Land may never happen.
Fairness ==
  /\ WF_vars(Tick)
  /\ \A r \in Replica : WF_vars(Cleanup(r))
  /\ \A m \in Msg : WF_vars(Pull(m))
  /\ \A m \in Msg : SF_vars(\E w \in Worker : Handle(w, m))
  /\ \A w \in Worker : WF_vars(Continue(w))
  /\ \A m \in Msg : SF_vars(\E w \in Worker : worker[w].msg = m /\ Ack(w, TRUE))

FairSpec == Spec /\ Fairness

-----------------------------------------------------------------------------
(* Properties.                                                             *)

\* What a handler's pc says of the rest of its record.
WellFormed(h) ==
  /\ h.pc = "idle" <=> h.msg = NoMsg
  /\ h.pc \in {"send", "sent", "confirm"} => Env[h.msg].subject \in {"submit", "mint"}
  /\ h.pc = "send" => h.tries < MaxAttempts
  /\ h.pc = "confirm" => Env[h.msg].subject = "mint" /\ h.sig \in Sig

\* Every variable keeps its type: every countdown stays within the duration it
\* was started with, and a handler about to sign has an attempt left.
TypeOK ==
  /\ stream \in [Msg -> {"absent", "pending", "settled"}]
  /\ age \in [Msg -> 0..(StaleAfter + 1)]
  /\ lease \in [Msg -> Nat]
  /\ \A m \in Msg : lease[m] <= LeaseOf(m)
  /\ buf \in [Msg -> Nat]
  /\ worker \in [Worker -> Handler]
  /\ \A w \in Worker : WellFormed(worker[w])
  /\ cache \in [Replica -> SUBSET CacheKey]
  /\ dedup \in [Replica -> [DedupKey -> DedupRecord]]
  /\ chain \in [Sig -> {"none", "accepted", "landed"}]
  /\ results \subseteq Result
  /\ starts \in [Msg -> Nat]
  /\ reconnects \in 0..MaxReconnects

\* s is a transaction of m's own effect (m itself, or a message of the same
\* subject and idempotency key) and it happened: the cluster took a submit,
\* executed a mint.
Happened(m, s) ==
  /\ s \in Sig
  /\ \E n \in Msg : /\ Env[n].subject = Env[m].subject
                    /\ n = m \/ (Keyed(m) /\ Env[n].key = Env[m].key)
                    /\ s[1] = Env[n].tx
  /\ chain[s] \in IF Env[m].subject = "mint" THEN {"landed"} ELSE {"accepted", "landed"}

\* A success reply to a submit or a mint, fresh or replayed from dedup_store
\* (claim_or_replay), names a transaction that really happened for that effect:
\* never a refused one, never a submit replayed as a mint (F4), and for a mint
\* never one that was only accepted.  Holds across restarts, redeliveries,
\* expired claims and overlapping handlers.
RepliesTruthful ==
  \A a \in results :
    Env[a.msg].subject \in {"submit", "mint"} => Happened(a.msg, a.sig)

\* A handler that signs under an idempotency key still holds the claim it took in
\* claim_or_replay: nobody replaced, released or cleaned up the InFlight record.
ClaimHeld ==
  \A w \in Worker : Signing(w) /\ Keyed(worker[w].msg) =>
    LET rec == dedup[Home[w]][DedupKeyOf(worker[w].msg)] IN
    rec.state = "InFlight" /\ rec.ttl = worker[w].left /\ rec.ttl > 0

\* "An InFlight claim blocks a duplicate on-chain tx": no two handlers of a
\* replica are signing for the same idempotency key at the same time.
ClaimExclusive ==
  \A u, w \in Worker :
    /\ u # w /\ Home[u] = Home[w] /\ Signing(u) /\ Signing(w)
    /\ Keyed(worker[u].msg)
    => DedupKeyOf(worker[u].msg) # DedupKeyOf(worker[w].msg)

\* "A successful submit is recorded Done and replayed to later re-sends": no
\* handler overwrites or removes an unexpired Done record; only a restart does.
DoneOnlyExpires ==
  [][\A r \in Replica, k \in DedupKey :
       dedup[r][k].state = "Done" /\ dedup[r][k].ttl > 0 /\ reconnects' = reconnects
       => dedup'[r][k].state = "Done" /\ dedup'[r][k].sig = dedup[r][k].sig]_vars

\* Leases and staleness bound how often a message is signed: the deliveries
\* that reach sign_and_submit, over all replicas and restarts, are no more than
\* the leases that fit in the staleness window, plus one.  The mint consumer's
\* ack_wait exceeds the window, so a mint is signed by at most one delivery.
StartsBounded ==
  \A m \in Msg : starts[m] * LeaseOf(m) <= StaleAfter + LeaseOf(m)

\* Once a cancel was answered with success, no handler starts to sign the
\* submit it names ("Also block the original if it arrives late").  Stated for
\* the consumer that answered it: one replica, not restarted.
CancelBlocksLaterSubmit ==
  [][\A w \in Worker, a \in results :
       /\ Env[a.msg].subject = "cancel"
       /\ worker[w].pc = "idle" /\ worker'[w].pc = "send"
       => Env[worker'[w].msg].corr # Env[a.msg].corr]_vars

\* Every message for the fast consumer is settled in the end, even if Vault or
\* the RPC node hangs, unless handlers that hang occupy every slot for good: a
\* redelivery is answered by the in-flight claim, the cache or the staleness
\* check, and mint handlers cannot hold it up.
FastLaneSettles ==
  \A m \in Msg : LaneOf(m) = "fast" =>
    ((stream[m] = "pending") ~>
       \/ stream[m] = "settled"
       \/ [](\A w \in Worker : Lane[w] = "fast" => Signing(w)))

\* Only an envelope that passed every static check is ever signed or claims a
\* dedup slot: authentic where signatures are required (always for a mint), of
\* a permitted role, decodable, allowed by policy, for an authorised key.
OnlyScreenedSigned ==
  \A m \in Msg : starts[m] > 0 =>
    LET e == Env[m] IN
    /\ e.parses /\ e.role # "Unknown"
    /\ RequireSigned \/ e.subject = "mint" => e.auth = "Verified"
    /\ \/ e.subject = "mint" /\ e.role \in {"AggregatorBridge", "MeterService"}
       \/ e.subject = "submit" /\ e.txOk /\ e.policyOk /\ e.keyId # "other"

-----------------------------------------------------------------------------
(* What the documentation says of the consumer, and the code does not do.  *)

\* "DashMap dedup prevents double-submission within 60s windows (NATS path)":
\* the cluster never takes two transactions for one submit envelope.
NoDoubleSubmission ==
  \A m \in Msg : Env[m].subject = "submit" =>
    Cardinality({b \in Blockhash : chain[<<Env[m].tx, b>>] # "none"}) <= 1

\* "Completed successfully - the on-chain effect happened exactly once": the
\* transactions the cluster took for a key that is Done are one.
DoneExactlyOnce ==
  \A r \in Replica, k \in DedupKey : dedup[r][k].state = "Done" =>
    Cardinality({s \in Sig : /\ chain[s] # "none"
                             /\ \E m \in Msg : /\ DedupKeyOf(m) = k
                                               /\ Env[m].tx = s[1]}) = 1

\* "Idempotency cache with 5s automatic TTL cleanup": an entry of the
\* idempotency_cache is eventually removed again.
CacheEntriesExpire ==
  \A r \in Replica, k \in CacheKey : (k \in cache[r]) ~> (k \notin cache[r])

=============================================================================
