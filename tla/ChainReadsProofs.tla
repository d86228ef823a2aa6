-------------------------- MODULE ChainReadsProofs --------------------------
(***************************************************************************)
(* What the bridge says of a transaction is true, what it says exists      *)
(* stays, and simnet keeps local state, for any number of submissions,     *)
(* account reads, polls and forks.                                         *)
(***************************************************************************)
EXTENDS ChainReads, TLAPS

\* A call that clones has the lock, and nothing was in its place when it began.
LockInv == \A x \in Txs \union Callers : pc[x] = "clone" => locked = x /\ svm = "none"

\* The ledger holds what was executed, and on simnet a mint is polled for only
\* after it was executed without an error.
LandedInv ==
    /\ \A i \in DOMAIN ledger : ledger[i] \in executed
    /\ \A t \in Txs : provider = "simnet" /\ pc[t] = "poll" => LandedOk(t)
    /\ \A t \in Txs : outcome[t] = "confirmed" => LandedOk(t)
    /\ \A t \in Txs : outcome[t] = "errored" => [tx |-> t, ok |-> FALSE] \in executed

IInv == TypeOK /\ LockInv /\ LandedInv

-----------------------------------------------------------------------------
\* Taking a transaction onto the ledger, and cutting the ledger.
LEMMA AppendEffect ==
    ASSUME NEW S, NEW s \in Seq(S), NEW e \in S
    PROVE  /\ Append(s, e) \in Seq(S) /\ Len(Append(s, e)) = Len(s) + 1
           /\ DOMAIN s = 1..Len(s) /\ DOMAIN Append(s, e) = 1..(Len(s) + 1) /\ Len(s) \in Nat
           /\ \A i \in DOMAIN s : Append(s, e)[i] = s[i]
           /\ Append(s, e)[Len(s) + 1] = e
  OBVIOUS

\* What cutting a sequence after n elements leaves.
LEMMA CutEffect ==
    ASSUME NEW S, NEW s \in Seq(S), NEW n \in 0..Len(s)
    PROVE  /\ SubSeq(s, 1, n) \in Seq(S) /\ Len(SubSeq(s, 1, n)) = n
           /\ DOMAIN SubSeq(s, 1, n) = 1..n /\ DOMAIN s = 1..Len(s) /\ Len(s) \in Nat
           /\ \A i \in 1..n : SubSeq(s, 1, n)[i] = s[i]
  OBVIOUS

-----------------------------------------------------------------------------
\* Types.
LEMMA TypeInit == Init => TypeOK
  BY ReadsAssumption DEF Init, TypeOK, Executions

\* Steps of the cluster keep the types.
LEMMA TypeCluster == ASSUME TypeOK, Cluster PROVE TypeOK'
<1> USE ReadsAssumption
<1> DEFINE S == Executions
<1>1. ledger \in Seq(S) /\ confirmed \in 0..Len(ledger) /\ Len(ledger) \in Nat
  BY DEF TypeOK
<1>2. ASSUME NEW t \in Txs, NEW ok \in BOOLEAN, Execute(t, ok) PROVE TypeOK'
  <2> DEFINE e == [tx |-> t, ok |-> ok]
  <2>1. e \in S /\ ledger' = Append(ledger, e) /\ executed' = executed \union {e}
    BY <1>2 DEF Execute, Executions
  <2> HIDE DEF S, e
  <2>2. ledger' \in Seq(S) /\ Len(ledger') = Len(ledger) + 1
    BY <1>1, <2>1, AppendEffect
  <2>3. executed' \subseteq S
    BY <2>1 DEF TypeOK, S
  <2> QED
    BY <1>1, <1>2, <2>2, <2>3 DEF TypeOK, Execute, simnet, submissions, S
<1>3. CASE Confirm
  BY <1>3 DEF TypeOK, Confirm, simnet, submissions
<1>4. CASE Root
  BY <1>4 DEF TypeOK, Root, simnet, submissions
<1>5. CASE Fork
  <2>1. PICK n \in confirmed..(Len(ledger) - 1) : ledger' = SubSeq(ledger, 1, n)
    BY <1>5 DEF Fork
  <2>2. n \in 0..Len(ledger) /\ n >= confirmed
    BY <1>1, <2>1
  <2> HIDE DEF S
  <2>3. ledger' \in Seq(S) /\ Len(ledger') = n
    BY <1>1, <2>1, <2>2, CutEffect
  <2>4. forks' \in 0..MaxForks
    BY <1>5 DEF Fork, TypeOK
  <2>5. confirmed' \in 0..Len(ledger') /\ rooted' \in 0..confirmed'
    BY <1>1, <1>5, <2>2, <2>3 DEF Fork, TypeOK
  <2> QED
    BY <1>5, <2>3, <2>4, <2>5 DEF TypeOK, Fork, simnet, submissions, S
<1> QED
  BY <1>2, <1>3, <1>4, <1>5 DEF Cluster

\* Steps of a call, and dropping it, keep the types.
LEMMA TypeStep == ASSUME TypeOK, NEW x \in Txs \union Callers, Step(x) \/ Drop(x) PROVE TypeOK'
<1> USE ReadsAssumption DEF cluster, simnet, submissions
<1>1. CASE EnsureAccount(x)
  BY <1>1 DEF TypeOK, EnsureAccount, AfterEnsure
<1>2. CASE CloneAccount(x)
  <2>1. AfterEnsure(x) \in {"fund", "read"}
    BY DEF AfterEnsure
  <2> QED BY <1>2, <2>1 DEF TypeOK, CloneAccount
<1>3. CASE CloneFails(x)
  BY <1>3 DEF TypeOK, CloneFails
<1>4. CASE x \in Txs /\ (FundPayer(x) \/ FundFails(x))
  BY ZenonT(30), <1>4 DEF TypeOK, FundPayer, FundFails, Failed, cluster, simnet
<1>5. CASE x \in Txs /\ SendRpc(x)
  BY ZenonT(30), <1>5 DEF TypeOK, SendRpc, Submitted, Failed
<1>6. ASSUME x \in Txs, NEW ok \in BOOLEAN, SendSimnet(x, ok) PROVE TypeOK'
  <2>1. executed' \subseteq Executions
    <3>1. [tx |-> x, ok |-> ok] \in Executions
      BY <1>6 DEF Executions
    <3> QED
      BY <1>6, <3>1 DEF SendSimnet, TypeOK
  <2>2. /\ pc' \in [Txs \union Callers ->
                   {"idle", "ensure", "clone", "fund", "send", "poll", "read", "done"}]
        /\ outcome' \in [Txs -> {"none", "failed", "submitted", "confirmed", "errored",
                                 "pending", "dropped"}]
    BY ZenonT(30), <1>6 DEF TypeOK, SendSimnet, Submitted, Failed
  <2> QED
    BY <1>6, <2>1, <2>2 DEF TypeOK, SendSimnet
<1>7. CASE x \in Txs /\ Poll(x)
  <2> HIDE DEF cluster, simnet, submissions
  <2>1. CASE PollAgain(x)
    <3>1. polls' \in [Txs -> 0..Attempts]
      BY <1>7, <2>1 DEF TypeOK, PollAgain
    <3> QED
      BY <2>1, <3>1 DEF TypeOK, PollAgain, cluster, simnet
  <2>2. ASSUME NEW r \in {"errored", "confirmed", "pending"}, Resolve(x, r),
               UNCHANGED <<provider, cluster, simnet, kind>>
        PROVE  TypeOK'
    BY <1>7, <2>2 DEF TypeOK, Resolve, cluster, simnet
  <2> QED
    BY <1>7, <2>1, <2>2 DEF Poll, PollAnswers, PollsExhausted
<1>8. CASE x \in Callers /\ ReadAccount(x)
  BY <1>8 DEF TypeOK, ReadAccount
<1>9. CASE Drop(x)
  <2>1. /\ pc' \in [Txs \union Callers ->
                   {"idle", "ensure", "clone", "fund", "send", "poll", "read", "done"}]
        /\ outcome' \in [Txs -> {"none", "failed", "submitted", "confirmed", "errored",
                                 "pending", "dropped"}]
    BY <1>9 DEF TypeOK, Drop
  <2>2. sent' \subseteq Txs /\ locked' \in Txs \union Callers \union {Nobody}
    BY <1>9 DEF TypeOK, Drop
  <2> QED
    BY <1>9, <2>1, <2>2 DEF TypeOK, Drop
<1> QED
  BY <1>1, <1>2, <1>3, <1>4, <1>5, <1>6, <1>7, <1>8, <1>9 DEF Step, Send

\* TypeOK is inductive.
LEMMA TypeNext == TypeOK /\ [Next]_vars => TypeOK'
<1> SUFFICES ASSUME TypeOK, [Next]_vars PROVE TypeOK'
  OBVIOUS
<1> USE ReadsAssumption
<1>1. CASE UNCHANGED vars
  BY <1>1 DEF vars, TypeOK, cluster, simnet, submissions
<1>2. CASE \E t \in Txs, k \in {"mint", "submit"}, role \in Roles : CallSubmit(t, k, role)
  BY <1>2 DEF TypeOK, CallSubmit, cluster, simnet
<1>3. CASE Read
  BY <1>3 DEF TypeOK, Read, get_account_data, request_airdrop, cluster, simnet, submissions
<1> QED
  BY <1>1, <1>2, <1>3, TypeCluster, TypeStep DEF Next

-----------------------------------------------------------------------------
\* The lock and what it guards.
LEMMA LockInit == Init => LockInv
  BY DEF Init, LockInv

\* LockInv is kept by every step.
LEMMA LockNext == TypeOK /\ LockInv /\ [Next]_vars => LockInv'
<1> SUFFICES ASSUME TypeOK, LockInv, [Next]_vars PROVE LockInv'
  OBVIOUS
<1> DEFINE P == Txs \union Callers
<1> USE ReadsAssumption DEF LockInv
<1>0. pc \in [P -> {"idle", "ensure", "clone", "fund", "send", "poll", "read", "done"}]
  BY DEF TypeOK
<1>1. CASE UNCHANGED <<pc, svm, locked>>
  BY <1>1
<1>2. CASE Cluster
  BY Zenon, <1>1, <1>2 DEF Cluster, Execute, Confirm, Root, Fork, simnet
<1>3. ASSUME NEW t \in Txs, NEW k \in {"mint", "submit"}, NEW role \in Roles,
             CallSubmit(t, k, role)
      PROVE  LockInv'
  BY <1>0, <1>3 DEF CallSubmit, simnet
<1>4. ASSUME NEW x \in P, EnsureAccount(x) PROVE LockInv'
  BY <1>0, <1>4 DEF EnsureAccount, AfterEnsure
<1>5. ASSUME NEW x \in P, CloneAccount(x) PROVE LockInv'
  BY <1>0, <1>5 DEF CloneAccount, AfterEnsure
<1>6. ASSUME NEW x \in P, CloneFails(x) PROVE LockInv'
  BY <1>0, <1>6 DEF CloneFails
<1>7. ASSUME NEW x \in P, Drop(x) PROVE LockInv'
  BY <1>0, <1>7 DEF Drop
<1>8. ASSUME NEW t \in Txs, FundPayer(t) \/ FundFails(t) PROVE LockInv'
  BY <1>0, <1>8 DEF FundPayer, FundFails, Failed, simnet
<1>9. ASSUME NEW t \in Txs, Send(t) PROVE LockInv'
  BY <1>0, <1>9 DEF Send, SendRpc, SendSimnet, Submitted, Failed, simnet
<1>10. ASSUME NEW t \in Txs, Poll(t) PROVE LockInv'
  BY <1>0, <1>10 DEF Poll, PollAnswers, PollAgain, PollsExhausted, Resolve, simnet
<1>11. ASSUME NEW c \in Callers, ReadAccount(c) PROVE LockInv'
  BY <1>0, <1>11 DEF ReadAccount, simnet
<1>12. CASE Read
  BY <1>0, <1>12 DEF Read, get_account_data, request_airdrop, simnet
<1>13. CASE UNCHANGED vars
  BY <1>1, <1>13 DEF vars, simnet
<1> QED
  BY <1>2, <1>3, <1>4, <1>5, <1>6, <1>7, <1>8, <1>9, <1>10, <1>11, <1>12, <1>13
     DEF Next, Step

-----------------------------------------------------------------------------
\* What was executed.
LEMMA LandedInit == Init => LandedInv
  BY DEF Init, LandedInv

\* Steps of the cluster keep LandedInv.
LEMMA LandedCluster == ASSUME TypeOK, LandedInv, Cluster PROVE LandedInv'
<1>1. ASSUME NEW t \in Txs, NEW ok \in BOOLEAN, Execute(t, ok) PROVE LandedInv'
  <2> DEFINE e == [tx |-> t, ok |-> ok]
  <2>1. /\ e \in Executions /\ ledger \in Seq(Executions)
        /\ ledger' = Append(ledger, e) /\ executed' = executed \union {e}
    BY <1>1 DEF Execute, Executions, TypeOK
  <2> HIDE DEF e
  <2>2. \A i \in DOMAIN ledger' : ledger'[i] \in executed'
    BY <2>1, AppendEffect DEF LandedInv
  <2>3. UNCHANGED <<provider, pc, outcome>>
    BY <1>1 DEF Execute, submissions
  <2> QED
    BY <2>1, <2>2, <2>3 DEF LandedInv, LandedOk
<1>2. CASE Confirm \/ Root
  BY <1>2 DEF LandedInv, LandedOk, Confirm, Root, submissions
<1>3. CASE Fork
  <2>1. PICK n \in confirmed..(Len(ledger) - 1) : ledger' = SubSeq(ledger, 1, n)
    BY <1>3 DEF Fork
  <2>2. n \in 0..Len(ledger) /\ ledger \in Seq(Executions)
    BY <2>1 DEF TypeOK
  <2>3. \A i \in DOMAIN ledger' : ledger'[i] \in executed
    BY <2>1, <2>2, CutEffect DEF LandedInv
  <2>4. UNCHANGED <<provider, pc, outcome, executed>>
    BY <1>3 DEF Fork, submissions
  <2> QED
    BY <2>3, <2>4 DEF LandedInv, LandedOk
<1> QED
  BY <1>1, <1>2, <1>3 DEF Cluster

\* A status without error is of a transaction that was executed without one,
\* a status with an error of one that was executed with it.
LEMMA StatusTruthful ==
    ASSUME TypeOK, LandedInv, NEW t \in Txs, provider = "rpc",
           get_signature_statuses(t).found
    PROVE  /\ ~get_signature_statuses(t).err => LandedOk(t)
           /\ get_signature_statuses(t).err => [tx |-> t, ok |-> FALSE] \in executed
<1>1. \A i \in DOMAIN ledger : ledger[i] \in Executions
  BY DEF TypeOK
<1>2. \A i \in Positions(t) : ledger[i] = [tx |-> t, ok |-> ledger[i].ok]
                               /\ ledger[i].ok \in BOOLEAN /\ ledger[i] \in executed
  BY <1>1 DEF Positions, Executions, LandedInv
<1>3. /\ Positions(t) # {}
      /\ get_signature_statuses(t).err <=> \E i \in Positions(t) : ~ledger[i].ok
  BY Zenon DEF get_signature_statuses
<1> QED
  BY Zenon, <1>2, <1>3 DEF LandedOk

\* LandedInv is kept by every step.
LEMMA LandedNext == TypeOK /\ LandedInv /\ [Next]_vars => LandedInv'
<1> SUFFICES ASSUME TypeOK, LandedInv, [Next]_vars PROVE LandedInv'
  OBVIOUS
<1> DEFINE P == Txs \union Callers
<1>0. /\ pc \in [P -> {"idle", "ensure", "clone", "fund", "send", "poll", "read", "done"}]
      /\ outcome \in [Txs -> {"none", "failed", "submitted", "confirmed", "errored",
                              "pending", "dropped"}]
      /\ provider \in {"rpc", "simnet"}
  BY DEF TypeOK
<1>1. ASSUME UNCHANGED <<provider, ledger, executed>>, NEW x \in P,
             pc' = [pc EXCEPT ![x] = pc'[x]], pc'[x] # "poll", UNCHANGED outcome
      PROVE  LandedInv'
  BY <1>0, <1>1 DEF LandedInv, LandedOk
<1>2. ASSUME UNCHANGED <<provider, ledger, executed>>, NEW x \in Txs, NEW r,
             pc' = [pc EXCEPT ![x] = "done"], outcome' = [outcome EXCEPT ![x] = r],
             r = "confirmed" => LandedOk(x),
             r = "errored" => [tx |-> x, ok |-> FALSE] \in executed
      PROVE  LandedInv'
  BY Zenon, <1>0, <1>2 DEF LandedInv, LandedOk
<1>3. CASE UNCHANGED <<provider, ledger, executed, pc, outcome>>
  BY <1>3 DEF LandedInv, LandedOk
<1>4. ASSUME NEW t \in Txs, NEW k \in {"mint", "submit"}, NEW role \in Roles,
             CallSubmit(t, k, role)
      PROVE  LandedInv'
  BY Zenon, <1>0, <1>1, <1>4 DEF CallSubmit, cluster
<1>5. ASSUME NEW x \in P, EnsureAccount(x) \/ CloneAccount(x) \/ CloneFails(x)
      PROVE  LandedInv'
  BY <1>0, <1>1, <1>5 DEF EnsureAccount, CloneAccount, CloneFails, AfterEnsure, cluster, submissions
<1>6. ASSUME NEW x \in P, Drop(x) PROVE LandedInv'
  <2>1. CASE x \in Txs
    BY Zenon, <1>2, <1>6, <2>1 DEF Drop
  <2>2. CASE x \notin Txs
    BY Zenon, <1>0, <1>1, <1>6, <2>2 DEF Drop
  <2> QED
    BY <2>1, <2>2
<1>7. ASSUME NEW t \in Txs, FundPayer(t) \/ FundFails(t) PROVE LandedInv'
  BY Zenon, <1>0, <1>1, <1>2, <1>7 DEF FundPayer, FundFails, Failed, cluster, submissions
<1>8. ASSUME NEW t \in Txs, SendRpc(t) PROVE LandedInv'
  <2>1. UNCHANGED <<provider, ledger, executed>> /\ provider = "rpc"
    BY <1>8 DEF SendRpc
  <2>2. CASE Failed(t)
    BY Zenon, <1>2, <2>1, <2>2 DEF Failed
  <2>3. CASE Submitted(t) /\ kind[t] # "mint"
    BY Zenon, <1>2, <2>1, <2>3 DEF Submitted
  <2>4. CASE Submitted(t) /\ kind[t] = "mint"
    BY <1>0, <2>1, <2>4 DEF Submitted, LandedInv, LandedOk
  <2> QED
    BY <1>8, <2>2, <2>3, <2>4 DEF SendRpc
<1>9. ASSUME NEW t \in Txs, NEW ok \in BOOLEAN, SendSimnet(t, ok) PROVE LandedInv'
  <2> DEFINE e == [tx |-> t, ok |-> ok]
  <2>1. UNCHANGED <<provider, ledger>> /\ executed' = executed \union {e}
    BY <1>9 DEF SendSimnet
  <2>2. /\ \A i \in DOMAIN ledger' : ledger'[i] \in executed'
        /\ \A u \in Txs : LandedOk(u) => LandedOk(u)'
        /\ \A u \in Txs : [tx |-> u, ok |-> FALSE] \in executed
                             => [tx |-> u, ok |-> FALSE] \in executed'
    BY <2>1 DEF LandedInv, LandedOk
  <2>3. ok => LandedOk(t)'
    BY <2>1 DEF LandedOk
  <2> HIDE DEF e
  <2>4. CASE ok /\ kind[t] = "mint"
    <3>1. pc' = [pc EXCEPT ![t] = "poll"] /\ outcome' = outcome
      BY <1>9, <2>4 DEF SendSimnet, Submitted
    <3> QED
      BY <1>0, <2>1, <2>2, <2>3, <2>4, <3>1 DEF LandedInv
  <2>5. CASE ~(ok /\ kind[t] = "mint")
    <3>1. PICK r \in {"failed", "submitted"} :
              pc' = [pc EXCEPT ![t] = "done"] /\ outcome' = [outcome EXCEPT ![t] = r]
      BY <1>9, <2>5 DEF SendSimnet, Submitted, Failed
    <3> QED
      BY <1>0, <2>1, <2>2, <3>1 DEF LandedInv
  <2> QED
    BY <2>4, <2>5
<1>10. ASSUME NEW t \in Txs, Poll(t) PROVE LandedInv'
  <2>1. UNCHANGED <<provider, ledger, executed>> /\ pc[t] = "poll"
    BY <1>10 DEF Poll, PollAnswers, PollAgain, PollsExhausted, cluster
  <2>2. CASE PollAnswers(t)
    <3>1. PICK r : /\ r = IF get_signature_statuses(t).err THEN "errored" ELSE "confirmed"
                   /\ Resolve(t, r)
      BY <2>2 DEF PollAnswers
    <3>2. CASE provider = "rpc"
      BY Zenon, <1>2, <2>1, <2>2, <3>1, <3>2, StatusTruthful DEF PollAnswers, Resolve
    <3>3. CASE provider = "simnet"
      <4>1. r = "confirmed" /\ LandedOk(t)
        BY <2>1, <3>1, <3>3 DEF get_signature_statuses, LandedInv
      <4> QED
        BY Zenon, <1>2, <2>1, <3>1, <4>1 DEF Resolve
    <3> QED
      BY <1>0, <3>2, <3>3
  <2>3. CASE PollAgain(t)
    BY <1>3, <2>1, <2>3 DEF PollAgain
  <2>4. CASE PollsExhausted(t)
    BY Zenon, <1>2, <2>1, <2>4 DEF PollsExhausted, Resolve
  <2> QED
    BY <1>10, <2>2, <2>3, <2>4 DEF Poll
<1>11. ASSUME NEW c \in Callers, ReadAccount(c) PROVE LandedInv'
  BY Zenon, <1>0, <1>1, <1>11 DEF ReadAccount, cluster, submissions
<1>12. CASE Read
  <2>1. ASSUME NEW c \in Callers, NEW role \in Roles, get_account_data(c, role) PROVE LandedInv'
    BY Zenon, <1>0, <1>1, <2>1 DEF get_account_data, cluster, submissions
  <2>2. ASSUME NEW role \in Roles, request_airdrop(role) PROVE LandedInv'
    BY <1>3, <2>2 DEF request_airdrop, cluster, submissions
  <2> QED
    BY <1>12, <2>1, <2>2 DEF Read
<1>13. CASE UNCHANGED vars
  BY <1>3, <1>13 DEF vars, cluster, submissions
<1> QED
  BY <1>4, <1>5, <1>6, <1>7, <1>8, <1>9, <1>10, <1>11, <1>12, <1>13, LandedCluster
     DEF Next, Step, Send

-----------------------------------------------------------------------------
\* The strengthened invariant holds throughout.
LEMMA Invariance == Spec => []IInv
<1>1. Init => IInv
  BY TypeInit, LockInit, LandedInit DEF IInv
<1>2. IInv /\ [Next]_vars => IInv'
  BY TypeNext, LockNext, LandedNext DEF IInv
<1> QED
  BY <1>1, <1>2, PTL DEF Spec

\* Every variable keeps its type; no mint is polled for more than Attempts times.
THEOREM ReadsTypeCorrect == Spec => []TypeOK
<1>1. IInv => TypeOK
  BY DEF IInv
<1> QED
  BY <1>1, Invariance, PTL

\* The outcome of a mint and what the NATS status lane says are true of what
\* the cluster or the SVM executed.
THEOREM OutcomesTrue == Spec => []OutcomeTruthful
<1>1. ASSUME IInv, NEW t \in Txs, provider = "rpc", NEW role \in Roles,
             signature_status(t, role) = "confirmed"
      PROVE  LandedOk(t)
  <2>1. get_signature_statuses(t).found /\ ~get_signature_statuses(t).err
    BY <1>1 DEF signature_status, Denied
  <2> QED
    BY Zenon, <1>1, <2>1, StatusTruthful DEF IInv
<1>2. IInv => OutcomeTruthful
  BY <1>1 DEF IInv, LandedInv, OutcomeTruthful
<1> QED
  BY <1>2, Invariance, PTL

\* Simnet never overwrites local state with a clone.
THEOREM LocalKept == Spec => LocalStateKept
<1>1. ASSUME IInv, [Next]_vars, svm = "local" PROVE svm' = "local"
  <2>1. ASSUME NEW x \in Txs \union Callers, CloneAccount(x) PROVE FALSE
    BY <1>1, <2>1 DEF IInv, LockInv, CloneAccount
  <2>2. CASE Cluster
    BY Zenon, <1>1, <2>2 DEF Cluster, Execute, Confirm, Root, Fork, simnet
  <2>3. ASSUME NEW x \in Txs \union Callers, Step(x) \/ Drop(x) PROVE svm' = "local"
    BY <1>1, <2>1, <2>3 DEF Step, EnsureAccount, CloneFails, FundPayer, FundFails, Send, SendRpc, SendSimnet,
         Poll, PollAnswers, PollAgain, PollsExhausted, ReadAccount, Drop, simnet
  <2>4. CASE Read
    BY <1>1, <2>4 DEF Read, get_account_data, request_airdrop, simnet
  <2> QED
    BY <1>1, <2>2, <2>3, <2>4 DEF Next, CallSubmit, vars, simnet
<1>2. IInv /\ [Next]_vars => [svm = "local" => svm' = "local"]_vars
  BY <1>1
<1> QED
  BY <1>2, Invariance, PTL DEF Spec, LocalStateKept

\* The confirmed part of the ledger stays as it is and the SVM keeps its account.
LEMMA Keeps ==
    ASSUME IInv, [Next]_vars
    PROVE  /\ provider' = provider
           /\ \A i \in Visible : i \in Visible' /\ i \in DOMAIN ledger' /\ ledger'[i] = ledger[i]
           /\ svm # "none" => svm' # "none"
<1>1. /\ ledger \in Seq(Executions) /\ confirmed \in 0..Len(ledger) /\ Len(ledger) \in Nat
      /\ DOMAIN ledger = 1..Len(ledger)
  BY DEF IInv, TypeOK
<1>2. CASE Cluster
  <2>1. UNCHANGED <<provider, svm>>
    BY Zenon, <1>2 DEF Cluster, Execute, Confirm, Root, Fork, simnet
  <2>2. ASSUME NEW t \in Txs, NEW ok \in BOOLEAN, Execute(t, ok)
        PROVE  \A i \in Visible : i \in Visible' /\ i \in DOMAIN ledger' /\ ledger'[i] = ledger[i]
    <3> DEFINE e == [tx |-> t, ok |-> ok]
    <3>1. e \in Executions /\ ledger' = Append(ledger, e) /\ confirmed' = confirmed
      BY <2>2 DEF Execute, Executions
    <3> HIDE DEF e
    <3>2. /\ DOMAIN ledger' = 1..(Len(ledger) + 1)
          /\ \A i \in 1..Len(ledger) : ledger'[i] = ledger[i]
      BY <1>1, <3>1, AppendEffect
    <3> QED
      BY <1>1, <3>1, <3>2 DEF Visible
  <2>3. CASE Confirm \/ Root
    <3>1. ledger' = ledger /\ confirmed \in Nat
      BY <1>1, <2>3 DEF Confirm, Root
    <3>2. confirmed' = confirmed + 1 \/ confirmed' = confirmed
      BY <2>3 DEF Confirm, Root
    <3>3. \A i \in 1..confirmed : i \in 1..confirmed' /\ i \in 1..Len(ledger)
      BY <1>1, <3>1, <3>2
    <3> QED
      BY <1>1, <2>1, <3>1, <3>3 DEF Visible
  <2>4. CASE Fork
    <3>1. PICK n \in confirmed..(Len(ledger) - 1) : ledger' = SubSeq(ledger, 1, n)
      BY <2>4 DEF Fork
    <3>2. n \in 0..Len(ledger) /\ n >= confirmed /\ confirmed' = confirmed
      BY <1>1, <2>4, <3>1 DEF Fork
    <3>3. DOMAIN ledger' = 1..n /\ \A i \in 1..n : ledger'[i] = ledger[i]
      BY <1>1, <3>1, <3>2, CutEffect
    <3>4. \A i \in 1..confirmed : i \in 1..n
      BY <1>1, <3>2
    <3> QED
      BY <2>1, <3>2, <3>3, <3>4 DEF Visible
  <2> QED
    BY <1>2, <2>1, <2>2, <2>3, <2>4 DEF Cluster
<1>3. ASSUME UNCHANGED <<provider, ledger, confirmed>>, svm # "none" => svm' # "none"
      PROVE  /\ provider' = provider
             /\ \A i \in Visible : i \in Visible' /\ i \in DOMAIN ledger' /\ ledger'[i] = ledger[i]
             /\ svm # "none" => svm' # "none"
  BY <1>1, <1>3 DEF Visible
<1>4. ASSUME NEW x \in Txs \union Callers, Step(x) \/ Drop(x)
      PROVE  UNCHANGED <<provider, ledger, confirmed>> /\ (svm # "none" => svm' # "none")
  <2>1. UNCHANGED <<provider, ledger, confirmed>>
    BY <1>4 DEF Step, EnsureAccount, CloneAccount, CloneFails, FundPayer, FundFails, Send, SendRpc, SendSimnet,
         Poll, PollAnswers, PollAgain, PollsExhausted, ReadAccount, Drop, cluster
  <2>2. svm # "none" => svm' # "none"
    BY <1>4 DEF Step, EnsureAccount, CloneAccount, CloneFails, FundPayer, FundFails, Send, SendRpc, SendSimnet,
         Poll, PollAnswers, PollAgain, PollsExhausted, ReadAccount, Drop, simnet
  <2> QED
    BY Zenon, <2>1, <2>2
<1>5. CASE Read
  BY <1>3, <1>5 DEF Read, get_account_data, request_airdrop, cluster, simnet
<1>6. CASE \E t \in Txs, k \in {"mint", "submit"}, role \in Roles : CallSubmit(t, k, role)
  BY <1>3, <1>6 DEF CallSubmit, cluster, simnet
<1>7. CASE UNCHANGED vars
  BY <1>3, <1>7 DEF vars, cluster, simnet
<1> QED
  BY <1>2, <1>3, <1>4, <1>5, <1>6, <1>7 DEF Next

\* What details and account reads report is never taken back.
THEOREM ExistenceKept == Spec => ExistenceStays
<1>1. ASSUME IInv, [Next]_vars
      PROVE  /\ \A t \in Txs : get_transaction(t) => get_transaction(t)'
             /\ get_account => get_account'
  <2>1. \A t \in Txs : get_transaction(t) => get_transaction(t)'
    BY <1>1, Keeps DEF get_transaction, Positions
  <2>2. get_account => get_account'
    BY <1>1, Keeps DEF get_account
  <2> QED
    BY <2>1, <2>2
<1>2. ASSUME IInv, [Next]_vars
      PROVE  /\ \A t \in Txs, role \in Roles :
                   get_transaction_details(t, role) = "found"
                       => get_transaction_details(t, role)' = "found"
             /\ get_account => get_account'
  BY <1>1, <1>2 DEF get_transaction_details, Denied
<1> QED
  BY <1>2, Invariance, PTL DEF Spec, ExistenceStays
=============================================================================
