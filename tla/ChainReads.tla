----------------------------- MODULE ChainReads -----------------------------
(***************************************************************************)
(* What the bridge tells its callers about the chain: the outcome of a     *)
(* mint (resolve_confirmation), the two status readers, transaction        *)
(* details and account data, through the provider main.rs chose at start.  *)
(*                                                                         *)
(* "rpc" is RealSolanaProvider: the cluster executes what it was sent,     *)
(* votes blocks confirmed, roots them, and may drop executed transactions  *)
(* that are not confirmed (a fork).  "simnet" is SurfpoolSolanaProvider:   *)
(* an SVM behind a lock, into which an account is cloned from another      *)
(* network on first use, and which executes a transaction as it is sent.   *)
(*                                                                         *)
(* One account stands for all; every transaction pays from it and writes   *)
(* it.  A read handler with a single await is one action: the provider     *)
(* takes its answer at one instant, and the handler changes nothing.       *)
(* SigningService has the other steps of sign_and_submit.                  *)
(***************************************************************************)
EXTENDS Integers, Sequences

CONSTANTS
    Txs,       \* submissions, each with the transaction it signs
    Callers,   \* requests for account data
    Roles,     \* the roles that call, names of ServiceRole
    Attempts,  \* polls of resolve_confirmation (24 in the code)
    MaxForks,  \* bound
    Nobody     \* holder of a free lock

ASSUME ReadsAssumption ==
    /\ Attempts \in Nat \ {0} /\ MaxForks \in Nat
    /\ Txs \intersect Callers = {} /\ Nobody \notin Txs \union Callers

VARIABLES
    provider,  \* "rpc" or "simnet"
    ledger,    \* executed transactions, each with its outcome
    confirmed, \* how many of them are confirmed
    rooted,    \* how many are rooted
    forks,     \* bound: forks so far
    executed,  \* history: every execution, forked away or not
    sent,      \* transactions the cluster has
    mainnet,   \* the account where simnet clones from
    svm,       \* the account in the SVM: "none", "cloned" or "local"
    locked,    \* who holds the SVM's write lock across an await
    pc,        \* where each submission and each account read is
    kind,      \* "mint" or "submit", for each submission
    polls,     \* polls made for each mint
    outcome    \* what each submission returned

cluster == <<ledger, confirmed, rooted, forks, executed, sent>>
simnet == <<mainnet, svm, locked>>
submissions == <<kind, polls, outcome>>
vars == <<provider, cluster, simnet, pc, submissions>>

(***************************************************************************)
(* RBAC of the handlers.                                                   *)
(***************************************************************************)
SubmitRoles == {"TradingApi", "TradingMatcher", "AggregatorBridge", "IamService",
                "SettlementService", "Admin"}
MintRoles == {"AggregatorBridge", "MeterService"}
StatusRoles == {"ApiGateway", "TradingApi", "TradingMatcher", "AggregatorBridge",
                "IamService", "SettlementService", "ReportingService", "Admin"}
DetailsRoles == {"ApiGateway", "TradingApi", "TradingMatcher", "AggregatorBridge",
                 "IamService", "SettlementService", "ReportingService", "Admin"}
AccountRoles == {"ApiGateway", "TradingApi", "TradingMatcher", "AggregatorBridge",
                 "IamService", "SettlementService", "ReportingService", "Admin"}
NatsStatusRoles == {"MeterService", "Admin"}
AirdropRoles == {"Admin", "IamService"}

(***************************************************************************)
(* Answers of the provider.                                                *)
(***************************************************************************)
Positions(t) == {i \in DOMAIN ledger : ledger[i].tx = t}

\* get_signature_statuses looks at every level of commitment; confirmations
\* is null once the transaction is rooted.  Simnet's answer is fixed.
get_signature_statuses(t) ==
    IF provider = "simnet"
    THEN [found |-> TRUE, err |-> FALSE, confirmations |-> TRUE]
    ELSE [found |-> Positions(t) # {},
          err |-> \E i \in Positions(t) : ~ledger[i].ok,
          confirmations |-> \E i \in Positions(t) : i > rooted]

\* Mutant of Visible: reads at processed commitment.
VisibleProcessed == DOMAIN ledger

\* The other reads are at the RPC client's commitment, confirmed.
Visible == 1..confirmed
get_transaction(t) == provider = "simnet" \/ Positions(t) \intersect Visible # {}
get_account ==
    IF provider = "simnet" THEN svm # "none" ELSE \E i \in Visible : ledger[i].ok

(***************************************************************************)
(* The readers that change nothing: what a handler would answer now.       *)
(***************************************************************************)
Denied == "permission_denied"

\* gRPC: its own reading of the status.
get_signature_status(t, role) ==
    IF role \notin StatusRoles THEN Denied
    ELSE LET s == get_signature_statuses(t)
         IN  IF s.found /\ (s.confirmations \/ ~s.err) THEN "confirmed" ELSE "unconfirmed"

\* signature_status, behind the NATS status lane.
signature_status(t, role) ==
    IF role \notin NatsStatusRoles THEN Denied
    ELSE LET s == get_signature_statuses(t)
         IN  IF s.found /\ ~s.err THEN "confirmed" ELSE "unconfirmed"

get_transaction_details(t, role) ==
    IF role \notin DetailsRoles THEN Denied
    ELSE IF get_transaction(t) THEN "found" ELSE "not found"

(***************************************************************************)
(* The cluster.                                                            *)
(***************************************************************************)
Execute(t, ok) ==
    /\ provider = "rpc" /\ t \in sent /\ Positions(t) = {}
    /\ ledger' = Append(ledger, [tx |-> t, ok |-> ok])
    /\ executed' = executed \union {[tx |-> t, ok |-> ok]}
    /\ UNCHANGED <<provider, confirmed, rooted, forks, sent, simnet, pc,
                   submissions>>

Confirm ==
    /\ provider = "rpc" /\ confirmed < Len(ledger)
    /\ confirmed' = confirmed + 1
    /\ UNCHANGED <<provider, ledger, rooted, forks, executed, sent, simnet, pc,
                   submissions>>

Root ==
    /\ provider = "rpc" /\ rooted < confirmed
    /\ rooted' = rooted + 1
    /\ UNCHANGED <<provider, ledger, confirmed, forks, executed, sent, simnet, pc,
                   submissions>>

Fork ==
    /\ provider = "rpc" /\ forks < MaxForks
    /\ \E n \in confirmed..(Len(ledger) - 1) : ledger' = SubSeq(ledger, 1, n)
    /\ forks' = forks + 1
    /\ UNCHANGED <<provider, confirmed, rooted, executed, sent, simnet, pc,
                   submissions>>
(***************************************************************************)
(* Submissions: the mint and the generic submit, from their RBAC to their  *)
(* outcome.  On simnet the pre-sign simulation clones the account first;   *)
(* its failures are advisory.                                              *)
(***************************************************************************)
MayStart(k, role) == role \in IF k = "mint" THEN MintRoles ELSE SubmitRoles

\* On simnet CHAIN_BRIDGE_PRESIGN_DISABLE skips the simulation and its clone.
CallSubmit(t, k, role) ==
    /\ pc[t] = "idle" /\ MayStart(k, role)
    /\ kind' = [kind EXCEPT ![t] = k]
    /\ \E first \in IF provider = "simnet" THEN {"ensure", "fund"} ELSE {"send"} :
          pc' = [pc EXCEPT ![t] = first]
    /\ UNCHANGED <<provider, cluster, simnet, polls, outcome>>

\* What follows ensure_account, in a submission and in get_account.
AfterEnsure(x) == IF x \in Txs THEN "fund" ELSE "read"

\* Mutant of EnsureAccount: the lock is released before the RPC call.
EnsureUnlocked(x) ==
    /\ pc[x] = "ensure" /\ locked = Nobody
    /\ pc' = [pc EXCEPT ![x] = IF svm = "none" THEN "clone" ELSE AfterEnsure(x)]
    /\ UNCHANGED <<provider, cluster, simnet, submissions>>

\* ensure_account keeps the write lock across the clone's RPC call.
EnsureAccount(x) ==
    /\ pc[x] = "ensure" /\ locked = Nobody
    /\ IF svm = "none"
       THEN /\ locked' = x
            /\ pc' = [pc EXCEPT ![x] = "clone"]
       ELSE /\ pc' = [pc EXCEPT ![x] = AfterEnsure(x)]
            /\ UNCHANGED locked
    /\ UNCHANGED <<provider, cluster, mainnet, svm, submissions>>

CloneAccount(x) ==
    /\ pc[x] = "clone" /\ mainnet = "present"
    /\ svm' = "cloned"
    /\ locked' = Nobody
    /\ pc' = [pc EXCEPT ![x] = AfterEnsure(x)]
    /\ UNCHANGED <<provider, cluster, mainnet, submissions>>

\* Mutant of CloneFails: the lock is kept.
CloneFailsLocked(x) ==
    /\ pc[x] = "clone"
    /\ pc' = [pc EXCEPT ![x] = IF x \in Txs THEN "fund" ELSE "idle"]
    /\ UNCHANGED <<provider, cluster, simnet, submissions>>

\* The account is not there, or the call failed.  get_account_data answers
\* (exists = false, or Internal), a submission goes on.
CloneFails(x) ==
    /\ pc[x] = "clone"
    /\ locked' = Nobody
    /\ pc' = [pc EXCEPT ![x] = IF x \in Txs THEN "fund" ELSE "idle"]
    /\ UNCHANGED <<provider, cluster, mainnet, svm, submissions>>

\* send_transaction of simnet takes the lock twice: to give a poor payer its
\* SOL, which creates or changes the account, and to execute.
FundPayer(t) ==
    /\ pc[t] = "fund" /\ locked = Nobody
    /\ svm' \in (IF svm = "none" THEN {"local"} ELSE {svm, "local"})
    /\ pc' = [pc EXCEPT ![t] = "send"]
    /\ UNCHANGED <<provider, cluster, mainnet, locked, submissions>>

Failed(t) ==
    /\ outcome' = [outcome EXCEPT ![t] = "failed"]
    /\ pc' = [pc EXCEPT ![t] = "done"]

\* The airdrop fails.
FundFails(t) ==
    /\ pc[t] = "fund" /\ locked = Nobody
    /\ Failed(t)
    /\ UNCHANGED <<provider, cluster, simnet, kind, polls>>

Submitted(t) ==
    IF kind[t] = "mint"
    THEN pc' = [pc EXCEPT ![t] = "poll"] /\ UNCHANGED outcome
    ELSE pc' = [pc EXCEPT ![t] = "done"] /\ outcome' = [outcome EXCEPT ![t] = "submitted"]

SendSimnet(t, ok) ==
    /\ provider = "simnet" /\ pc[t] = "send" /\ locked = Nobody
    /\ executed' = executed \union {[tx |-> t, ok |-> ok]}
    /\ svm' = "local"
    /\ IF ok THEN Submitted(t) ELSE Failed(t)
    /\ UNCHANGED <<provider, ledger, confirmed, rooted, forks, sent, mainnet, locked,
                   kind, polls>>

\* The call may fail although the cluster has the transaction.
SendRpc(t) ==
    /\ provider = "rpc" /\ pc[t] = "send"
    /\ \/ sent' = sent \union {t} /\ Submitted(t)
       \/ sent' \in {sent, sent \union {t}} /\ Failed(t)
    /\ UNCHANGED <<provider, ledger, confirmed, rooted, forks, executed, simnet,
                   kind, polls>>

Resolve(t, result) ==
    /\ outcome' = [outcome EXCEPT ![t] = result]
    /\ pc' = [pc EXCEPT ![t] = "done"]
    /\ UNCHANGED polls

\* Mutant of PollAnswers: it does not look at err.
PollAnswersSlotOnly(t) ==
    /\ pc[t] = "poll" /\ polls[t] < Attempts
    /\ get_signature_statuses(t).found
    /\ Resolve(t, "confirmed")
    /\ UNCHANGED <<provider, cluster, simnet, kind>>

\* resolve_confirmation: a poll that finds the transaction decides.
PollAnswers(t) ==
    /\ pc[t] = "poll" /\ polls[t] < Attempts
    /\ get_signature_statuses(t).found
    /\ Resolve(t, IF get_signature_statuses(t).err THEN "errored" ELSE "confirmed")
    /\ UNCHANGED <<provider, cluster, simnet, kind>>

\* Mutant of PollAgain: one poll too many.
PollAgainOnceMore(t) ==
    /\ pc[t] = "poll" /\ polls[t] <= Attempts
    /\ provider = "rpc"
    /\ polls' = [polls EXCEPT ![t] = @ + 1]
    /\ UNCHANGED <<provider, cluster, simnet, pc, kind, outcome>>

\* It was not found, or the call failed.
PollAgain(t) ==
    /\ pc[t] = "poll" /\ polls[t] < Attempts
    /\ provider = "rpc"
    /\ polls' = [polls EXCEPT ![t] = @ + 1]
    /\ UNCHANGED <<provider, cluster, simnet, pc, kind, outcome>>

PollsExhausted(t) ==
    /\ pc[t] = "poll" /\ polls[t] = Attempts
    /\ Resolve(t, "pending")
    /\ UNCHANGED <<provider, cluster, simnet, kind>>

(***************************************************************************)
(* The readers.                                                            *)
(***************************************************************************)
get_account_data(c, role) ==
    /\ pc[c] = "idle" /\ role \in AccountRoles
    /\ pc' = [pc EXCEPT ![c] = IF provider = "simnet" THEN "ensure" ELSE "read"]
    /\ UNCHANGED <<provider, cluster, simnet, submissions>>

ReadAccount(c) ==
    /\ pc[c] = "read" /\ locked = Nobody
    /\ pc' = [pc EXCEPT ![c] = "idle"]
    /\ UNCHANGED <<provider, cluster, simnet, submissions>>

\* On a cluster the airdrop is a transaction like any other.
request_airdrop(role) ==
    /\ provider = "simnet" /\ role \in AirdropRoles /\ locked = Nobody
    /\ svm' = "local"
    /\ UNCHANGED <<provider, cluster, mainnet, locked, pc, submissions>>

\* A handler is dropped while it waits (its client went away, or the NATS
\* connection is made anew): a lock it holds is freed, a transaction may be on its way.
Drop(x) ==
    /\ pc[x] \notin {"idle", "done"}
    /\ locked' = IF locked = x THEN Nobody ELSE locked
    /\ pc' = [pc EXCEPT ![x] = IF x \in Txs THEN "done" ELSE "idle"]
    /\ outcome' = IF x \in Txs THEN [outcome EXCEPT ![x] = "dropped"] ELSE outcome
    /\ sent' \in {sent, sent \union {t \in Txs : t = x /\ provider = "rpc" /\ pc[x] = "send"}}
    /\ UNCHANGED <<provider, ledger, confirmed, rooted, forks, executed, mainnet, svm,
                   kind, polls>>

Init ==
    /\ provider \in {"rpc", "simnet"}
    /\ ledger = << >> /\ confirmed = 0 /\ rooted = 0 /\ forks = 0
    /\ executed = {} /\ sent = {}
    /\ mainnet \in (IF provider = "simnet" THEN {"present", "absent"} ELSE {"absent"})
    /\ svm = "none" /\ locked = Nobody
    /\ pc = [x \in Txs \union Callers |-> "idle"]
    /\ kind = [t \in Txs |-> "none"]
    /\ polls = [t \in Txs |-> 0]
    /\ outcome = [t \in Txs |-> "none"]

Cluster ==
    \/ \E t \in Txs, ok \in BOOLEAN : Execute(t, ok)
    \/ Confirm
    \/ Root
    \/ Fork

Send(t) == SendRpc(t) \/ \E ok \in BOOLEAN : SendSimnet(t, ok)
Poll(t) == PollAnswers(t) \/ PollAgain(t) \/ PollsExhausted(t)

\* The next step of a submission or an account read that was called.
Step(x) ==
    \/ EnsureAccount(x) \/ CloneAccount(x) \/ CloneFails(x)
    \/ x \in Txs /\ (FundPayer(x) \/ FundFails(x) \/ Send(x) \/ Poll(x))
    \/ x \in Callers /\ ReadAccount(x)

Read ==
    \E role \in Roles :
        \/ \E c \in Callers : get_account_data(c, role)
        \/ request_airdrop(role)

Next ==
    \/ Cluster
    \/ \E t \in Txs, k \in {"mint", "submit"}, role \in Roles : CallSubmit(t, k, role)
    \/ \E x \in Txs \union Callers : Step(x) \/ Drop(x)
    \/ Read

Spec == Init /\ [][Next]_vars

\* The runtime runs what is ready, the RPC client gives up after its timeout
\* (the library's default) and tokio's RwLock hands the lock to its waiters in
\* turn, so a call that could go on again and again goes on.  Nothing is
\* assumed of the cluster or of callers.
FairSpec == Spec /\ \A x \in Txs \union Callers : SF_vars(Step(x))

(***************************************************************************)
(* Properties.                                                             *)
(***************************************************************************)
Executions == [tx : Txs, ok : BOOLEAN]

\* Every variable has its type, and what is rooted is confirmed.
TypeOK ==
    /\ provider \in {"rpc", "simnet"}
    /\ ledger \in Seq(Executions)
    /\ confirmed \in 0..Len(ledger) /\ rooted \in 0..confirmed
    /\ forks \in 0..MaxForks
    /\ executed \subseteq Executions /\ sent \subseteq Txs
    /\ mainnet \in {"present", "absent"}
    /\ svm \in {"none", "cloned", "local"}
    /\ locked \in Txs \union Callers \union {Nobody}
    /\ pc \in [Txs \union Callers ->
                 {"idle", "ensure", "clone", "fund", "send", "poll", "read", "done"}]
    /\ kind \in [Txs -> {"none", "mint", "submit"}]
    /\ polls \in [Txs -> 0..Attempts]
    /\ outcome \in [Txs -> {"none", "failed", "submitted", "confirmed", "errored",
                            "pending", "dropped"}]

LandedOk(t) == [tx |-> t, ok |-> TRUE] \in executed

\* A mint that resolve_confirmation calls confirmed was executed without an
\* error, one it calls errored was executed with one, and a transaction the
\* NATS status lane calls confirmed was executed without an error (on a
\* cluster; simnet reports every signature as confirmed).
OutcomeTruthful ==
    \A t \in Txs :
        /\ outcome[t] = "confirmed" => LandedOk(t)
        /\ outcome[t] = "errored" => [tx |-> t, ok |-> FALSE] \in executed
        /\ provider = "rpc" =>
              \A role \in Roles : signature_status(t, role) = "confirmed" => LandedOk(t)

\* What get_transaction_details reports as found and an account that
\* get_account_data reports as existing, no later step takes back: both are
\* read at the client's confirmed commitment, which no fork reaches, and the
\* SVM loses no account.
ExistenceStays ==
    [][/\ \A t \in Txs, role \in Roles :
             get_transaction_details(t, role) = "found"
                 => get_transaction_details(t, role)' = "found"
       /\ get_account => get_account']_vars

\* On simnet a clone never overwrites what was executed or airdropped
\* locally: ensure_account looks and writes under one hold of the lock.
LocalStateKept == [][svm = "local" => svm' = "local"]_vars

\* The SVM's lock comes back however its holder ends, and polling is
\* bounded: every submission and every account read that began returns.
CallsReturn ==
    \A x \in Txs \union Callers : []<>(pc[x] \in {"idle", "done"})

\* "`confirmed` means the tx landed without an execution error", of the
\* reading "used by both the gRPC `get_signature_status` and the NATS
\* `chain.tx.status` handler", on a cluster.
StatusMeansLanded ==
    provider = "rpc" => \A t \in Txs, role \in Roles :
        get_signature_status(t, role) = "confirmed" => LandedOk(t)

\* The mint's outcome is resolved "at `confirmed` commitment" to "gate success
\* on finality": a confirmed mint stays on the ledger.
ConfirmedStays ==
    provider = "rpc" => \A t \in Txs : outcome[t] = "confirmed" => Positions(t) # {}
=============================================================================
