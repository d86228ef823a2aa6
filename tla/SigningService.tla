---------------------------- MODULE SigningService ----------------------------
(***************************************************************************)
(* The signing pipeline of api/service.rs in single steps: the gRPC        *)
(* handler submit_transaction around sign_and_submit, the BlockhashCache   *)
(* with the task of main.rs that refreshes it, and the audit entries.      *)
(* NatsConsumer takes sign_and_submit as one action; here every await is a *)
(* point where other calls, the refresh task and a disconnecting client    *)
(* may step in.  A step belongs to the call it names.  A blockhash is the  *)
(* height it was issued at.  Vault, the RPC node and PolicyEngine are      *)
(* external: their answers are choices, or fields of the request.          *)
(***************************************************************************)
EXTENDS Naturals, Sequences

CONSTANTS
  Call,           \* calls of submit_transaction
  Request,        \* what a call may carry, see RequestFields
  Env,            \* environments the process may be started with
  NoHash,         \* Hash::default(), an empty cache, no answer yet
  MaxHeight       \* bound: blocks produced

VARIABLES
  env,            \* process environment: insecure, header_auth, presign_disable
  height,         \* latest block of the cluster
  blockhash_cache,
  refresh,        \* answer the refresh task is about to store, or NoHash
  call,           \* progress of every call
  signed,         \* calls for which Vault has made a signature
  taken,          \* calls whose transaction the cluster has taken
  trail,          \* audit entries, oldest first
  unlogged        \* calls whose append failed

vars == <<env, height, blockhash_cache, refresh, call, signed, taken, trail, unlogged>>
blocks == <<height, blockhash_cache, refresh>>
effects == <<signed, taken>>
audit == <<trail, unlogged>>

Hash == Nat \cup {NoHash}

\* spiffe: role of the identity PeerCertLayer put into its header, "none" if the
\* header is absent; header: role claimed in the other headers; format, policy:
\* what bincode and PolicyEngine say; hash: blockhash the caller has set.
RequestFields ==
  [spiffe : STRING, header : STRING, format : BOOLEAN, policy : BOOLEAN,
   key_id : {"", "platform_admin", "other"}, hash : Hash]

EnvFields ==
  [insecure : BOOLEAN, header_auth : BOOLEAN, presign_disable : BOOLEAN]

ASSUME SigningAssumption ==
  /\ NoHash \notin Nat /\ MaxHeight \in Nat
  /\ Request \subseteq RequestFields /\ Request # {}
  /\ Env \subseteq EnvFields

\* SignSubmitStage, and what ends a call outside sign_and_submit.
Rejections == {"PolicyRejected", "KeyNotAuthorized", "SimulationRejected"}
Silent == {"RoleDenied", "InvalidFormat", "BlockhashRefreshFailed", "VaultSigningFailed"}
Audited == Rejections \cup {"SubmissionFailed", "Submitted"}
Stage == Silent \cup Audited

\* The error code submit_transaction chooses; "ok" is success = true.
CodeLumped(stage) ==    \* mutant: a failed send is called a failed precondition
  CASE stage = "Submitted" -> "ok"
    [] stage \in {"SimulationRejected", "SubmissionFailed"} -> "failed_precondition"
    [] stage = "InvalidFormat" -> "invalid_argument"
    [] stage \in {"RoleDenied", "PolicyRejected", "KeyNotAuthorized"} -> "permission_denied"
    [] stage \in {"BlockhashRefreshFailed", "VaultSigningFailed"} -> "unavailable"

Code(stage) ==
  CASE stage = "Submitted" -> "ok"
    [] stage = "InvalidFormat" -> "invalid_argument"
    [] stage \in {"RoleDenied", "PolicyRejected", "KeyNotAuthorized"} -> "permission_denied"
    [] stage = "SimulationRejected" -> "failed_precondition"
    [] stage \in {"BlockhashRefreshFailed", "VaultSigningFailed", "SubmissionFailed"}
         -> "unavailable"

\* role_from: the certificate first, then the two escape hatches.
RoleFrom(req) ==
  IF req.spiffe # "none" THEN req.spiffe
  ELSE IF env.insecure THEN "Admin"
  ELSE IF env.header_auth THEN req.header
  ELSE "Unknown"

Signers == {"TradingApi", "TradingMatcher", "AggregatorBridge", "IamService",
            "SettlementService", "Admin"}

\* State of a call; before it arrives its request is any one.
Working == {"hash", "fetch", "fetched", "simulate", "sign", "send", "audit"}
CallState ==
  [pc : {"new", "done", "gone"} \cup Working, req : Request, hash : Hash,
   stage : Stage \cup {"none"}]

Fresh(req) == [pc |-> "new", req |-> req, hash |-> NoHash, stage |-> "none"]

Init ==
  /\ env \in Env
  /\ height = 0
  /\ blockhash_cache = NoHash
  /\ refresh = NoHash
  /\ \E req \in [Call -> Request] : call = [c \in Call |-> Fresh(req[c])]
  /\ signed = {} /\ taken = {}
  /\ trail = <<>> /\ unlogged = {}

GoTo(c, pc, hash) == call' = [call EXCEPT ![c].pc = pc, ![c].hash = hash]

\* A rejection that is audited passes through record_audit before it returns.
Ends(c, stage) ==
  call' = [call EXCEPT ![c].pc = IF stage \in Audited THEN "audit" ELSE "done",
                       ![c].stage = stage]

\* Where sign_and_submit goes once the blockhash is set.
AfterHash == IF env.presign_disable THEN "sign" ELSE "simulate"

\* submit_transaction and sign_and_submit up to the first await: role, format,
\* policy, key; only platform_admin is signed for, an empty key_id sends the
\* transaction as it came.
Submit(c) ==
  LET req == call[c].req IN
  /\ call[c].pc = "new"
  /\ \/ RoleFrom(req) \notin Signers /\ Ends(c, "RoleDenied")
     \/ /\ RoleFrom(req) \in Signers
        /\ \/ ~req.format /\ Ends(c, "InvalidFormat")
           \/ req.format /\ ~req.policy /\ Ends(c, "PolicyRejected")
           \/ /\ req.format /\ req.policy
              /\ \/ req.key_id = "other" /\ Ends(c, "KeyNotAuthorized")
                 \/ req.key_id = "" /\ GoTo(c, "send", req.hash)
                 \/ /\ req.key_id = "platform_admin"
                    /\ IF req.hash = NoHash THEN GoTo(c, "hash", NoHash)
                       ELSE GoTo(c, AfterHash, req.hash)
  /\ UNCHANGED <<env, blocks, effects, audit>>

\* Mutant: the cached value is used even when the cache is empty.
ReadCacheOnly(c) ==
  /\ call[c].pc = "hash"
  /\ GoTo(c, AfterHash, blockhash_cache)
  /\ UNCHANGED <<env, blocks, effects, audit>>

\* blockhash_cache.get; an empty cache sends the call to the RPC node.
ReadCache(c) ==
  /\ call[c].pc = "hash"
  /\ IF blockhash_cache # NoHash THEN GoTo(c, AfterHash, blockhash_cache)
     ELSE GoTo(c, "fetch", NoHash)
  /\ UNCHANGED <<env, blocks, effects, audit>>

\* The node answers the slow path; the answer is under way until FetchReturn.
FetchAnswer(c) ==
  /\ call[c].pc = "fetch"
  /\ GoTo(c, "fetched", height)
  /\ UNCHANGED <<env, blocks, effects, audit>>

\* Mutant: the slow path also fills the cache.
FetchReturnStoring(c) ==
  /\ call[c].pc = "fetched"
  /\ GoTo(c, AfterHash, call[c].hash)
  /\ blockhash_cache' = call[c].hash
  /\ UNCHANGED <<env, height, refresh, effects, audit>>

\* The slow path leaves the cache alone.
FetchReturn(c) ==
  /\ call[c].pc = "fetched"
  /\ GoTo(c, AfterHash, call[c].hash)
  /\ UNCHANGED <<env, blocks, effects, audit>>

FetchFail(c) ==
  /\ call[c].pc \in {"fetch", "fetched"}
  /\ Ends(c, "BlockhashRefreshFailed")
  /\ UNCHANGED <<env, blocks, effects, audit>>

\* Pre-sign simulation: a definitive failure rejects, an RPC error is advisory.
Simulate(c) ==
  /\ call[c].pc = "simulate"
  /\ \E answer \in {"passed", "failed", "rpc error"} :
       IF answer = "failed" THEN Ends(c, "SimulationRejected")
       ELSE GoTo(c, "sign", call[c].hash)
  /\ UNCHANGED <<env, blocks, effects, audit>>

\* What Vault may have done when sign_message returns: Ok carries a signature,
\* but the request, its status, the JSON or the base64 may fail after signing.
VaultEffects(c, ok) ==
  {signed \cup {c}} \cup IF ok THEN {} ELSE {signed}

SignMessage(c) ==
  /\ call[c].pc = "sign"
  /\ \/ signed' \in VaultEffects(c, TRUE) /\ GoTo(c, "send", call[c].hash)
     \/ signed' \in VaultEffects(c, FALSE) /\ Ends(c, "VaultSigningFailed")
  /\ UNCHANGED <<env, blocks, taken, audit>>

\* Mutant: an error of the RPC node is taken for success.
SendOptimistic(c) ==
  /\ call[c].pc = "send"
  /\ taken' \in {taken, taken \cup {c}} /\ Ends(c, "Submitted")
  /\ UNCHANGED <<env, blocks, signed, audit>>

\* provider.send_transaction; after an error the cluster may have taken it.
SendTransaction(c) ==
  /\ call[c].pc = "send"
  /\ \/ taken' = taken \cup {c} /\ Ends(c, "Submitted")
     \/ taken' \in {taken, taken \cup {c}} /\ Ends(c, "SubmissionFailed")
  /\ UNCHANGED <<env, blocks, signed, audit>>

Entry(c) == [call |-> c, stage |-> call[c].stage]

\* record_audit: best-effort; the call returns its result either way.
RecordAuditUnlessRejected(c) ==   \* mutant: rejections before the send are not recorded
  /\ call[c].pc = "audit"
  /\ \/ /\ trail' = IF call[c].stage \in Rejections THEN trail ELSE Append(trail, Entry(c))
        /\ UNCHANGED unlogged
     \/ unlogged' = unlogged \cup {c} /\ UNCHANGED trail
  /\ GoTo(c, "done", call[c].hash)
  /\ UNCHANGED <<env, blocks, effects>>

RecordAudit(c) ==
  /\ call[c].pc = "audit"
  /\ \/ trail' = Append(trail, Entry(c)) /\ UNCHANGED unlogged
     \/ unlogged' = unlogged \cup {c} /\ UNCHANGED trail
  /\ GoTo(c, "done", call[c].hash)
  /\ UNCHANGED <<env, blocks, effects>>

\* The client disconnects and the handler is dropped at an await; what it had
\* asked of Vault, the node or the audit store may still happen.
Drop(c) ==
  /\ call[c].pc \in Working
  /\ signed' \in {signed} \cup IF call[c].pc = "sign" THEN {signed \cup {c}} ELSE {}
  /\ taken' \in {taken} \cup IF call[c].pc = "send" THEN {taken \cup {c}} ELSE {}
  /\ trail' \in {trail} \cup IF call[c].pc = "audit" THEN {Append(trail, Entry(c))} ELSE {}
  /\ GoTo(c, "gone", call[c].hash)
  /\ UNCHANGED <<env, blocks, unlogged>>

\* The refresh task asks, waits for the answer and stores it, one at a time.
RefreshAnswer ==
  /\ refresh = NoHash
  /\ refresh' = height
  /\ UNCHANGED <<env, height, blockhash_cache, call, effects, audit>>

\* On an error the task only logs, and the cache keeps what it has.
RefreshReturn ==
  /\ refresh # NoHash
  /\ blockhash_cache' \in {refresh, blockhash_cache}
  /\ refresh' = NoHash
  /\ UNCHANGED <<env, height, call, effects, audit>>

\* The cluster (external) produces a block.
NewBlock ==
  /\ height < MaxHeight
  /\ height' = height + 1
  /\ UNCHANGED <<env, blockhash_cache, refresh, call, effects, audit>>

Next ==
  \/ \E c \in Call :
       \/ Submit(c) \/ ReadCache(c)
       \/ FetchAnswer(c) \/ FetchReturn(c) \/ FetchFail(c)
       \/ Simulate(c) \/ SignMessage(c) \/ SendTransaction(c)
       \/ RecordAudit(c) \/ Drop(c)
  \/ RefreshAnswer \/ RefreshReturn \/ NewBlock

Spec == Init /\ [][Next]_vars

-----------------------------------------------------------------------------
\* Every variable keeps its type, no blockhash is ahead of the cluster, and a
\* call that Vault is asked to sign for has its blockhash set.
TypeOK ==
  /\ env \in Env /\ height \in 0..MaxHeight
  /\ \A h \in {blockhash_cache, refresh} : h \in 0..height \cup {NoHash}
  /\ call \in [Call -> CallState]
  /\ \A c \in Call : call[c].pc \in {"fetched", "simulate", "sign"} => call[c].hash # NoHash
  /\ signed \subseteq Call /\ taken \subseteq Call /\ unlogged \subseteq Call
  /\ trail \in Seq([call : Call, stage : Audited])

\* What submit_transaction answers can be relied on whatever Vault, the node
\* and other calls do: success means the cluster has the transaction, and every
\* code except "unavailable" means that Vault made no signature for it and
\* the cluster did not get it, so that the client may correct it and call again.
AnswersTruthful ==
  \A c \in Call : call[c].pc = "done" =>
    /\ Code(call[c].stage) = "ok" => c \in taken
    /\ Code(call[c].stage) \in {"permission_denied", "invalid_argument", "failed_precondition"}
         => c \notin signed \cup taken

\* An audit entry never says more than happened, even if its call was dropped:
\* a Submitted entry means that the cluster has the transaction, a rejection by
\* policy, key or simulation that nothing was signed or sent.
AuditTruthful ==
  \A i \in DOMAIN trail :
    /\ trail[i].stage = "Submitted" => trail[i].call \in taken
    /\ trail[i].stage \in Rejections => trail[i].call \notin signed \cup taken

EntriesOf(c) == {i \in DOMAIN trail : trail[i].call = c}

\* "must append exactly one audit entry": a call that was answered from an
\* audited stage has one entry, naming that stage, unless its append failed;
\* no call has two, and a call without an audited stage has none.
AuditComplete ==
  \A c \in Call :
    /\ \A i, j \in EntriesOf(c) : i = j
    /\ \A i \in EntriesOf(c) : trail[i].stage = call[c].stage
    /\ call[c].pc = "done" /\ call[c].stage \in Audited /\ c \notin unlogged
         => EntriesOf(c) # {}

\* The cache never falls back to an older blockhash or to none, although
\* answers of the node are under way to several tasks at once: only the
\* refresh task stores them, in the order in which it asked.
CacheNeverGoesBack ==
  [][blockhash_cache # NoHash =>
       blockhash_cache' # NoHash /\ blockhash_cache <= blockhash_cache']_vars

\* "Rejected before signing": no entry that records a rejection belongs to a
\* transaction Vault has signed.  The entry of a failed send breaks it.
RejectedBeforeSigning ==
  \A i \in DOMAIN trail : trail[i].stage # "Submitted" => trail[i].call \notin signed

=============================================================================
