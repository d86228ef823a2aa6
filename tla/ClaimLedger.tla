----------------------------- MODULE ClaimLedger -----------------------------
(***************************************************************************)
(* What the effect-level deduplication promises (dedup.rs, ARCHITECTURE.md *)
(* section 4): per replica and idempotency key, at most one attempt holds  *)
(* the claim; only its holder completes or releases it; a completed effect *)
(* may be forgotten after a while, a held claim only by a restart.         *)
(***************************************************************************)
CONSTANTS Replica, DedupKey, Worker

VARIABLE ledger   \* [Replica -> [DedupKey -> Slot]]

Slot == [state : {"free", "held", "done"}, by : SUBSET Worker]
Free == [state |-> "free", by |-> {}]
Held(w) == [state |-> "held", by |-> {w}]
Done == [state |-> "done", by |-> {}]

Init == ledger = [r \in Replica |-> [k \in DedupKey |-> Free]]

\* An attempt takes a key nobody holds and no completed effect occupies.
Claim(r, k, w) ==
  /\ ledger[r][k] = Free
  /\ ledger' = [ledger EXCEPT ![r][k] = Held(w)]

\* The holder ends its attempt: with an effect, or without one.
Complete(r, k, w) ==
  /\ ledger[r][k] = Held(w)
  /\ ledger' = [ledger EXCEPT ![r][k] = Done]

Release(r, k, w) ==
  /\ ledger[r][k] = Held(w)
  /\ ledger' = [ledger EXCEPT ![r][k] = Free]

\* Completed effects are forgotten, any number of them at once.
Expire ==
  /\ ledger' \in [Replica -> [DedupKey -> Slot]]
  /\ \A r \in Replica, k \in DedupKey :
       \/ ledger'[r][k] = ledger[r][k]
       \/ ledger[r][k] = Done /\ ledger'[r][k] = Free

\* A replica that restarts forgets everything.
Restart(r) == ledger' = [ledger EXCEPT ![r] = [k \in DedupKey |-> Free]]

Next ==
  \/ Expire
  \/ \E r \in Replica, k \in DedupKey, w \in Worker :
       Claim(r, k, w) \/ Complete(r, k, w) \/ Release(r, k, w)
  \/ \E r \in Replica : Restart(r)

Spec == Init /\ [][Next]_ledger

=============================================================================
