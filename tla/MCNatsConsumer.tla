--------------------------- MODULE MCNatsConsumer ---------------------------
(***************************************************************************)
(* Instances of NatsConsumer for TLC.  One unit of time stands for 30 s    *)
(* (AckWait 1, StaleAfter 1, MintAckWait 3, ClaimTTL 4) or, where there    *)
(* are more messages, for 60 s (AckWait 1, StaleAfter 0, MintAckWait 2,    *)
(* ClaimTTL 2).  An envelope StaleAfter + 1 units old is stale.            *)
(***************************************************************************)
EXTENDS ClaimRefinement, TLC

\* A well-formed, verified envelope of a known role; the bridge fills in the
\* blockhash.
Plain(subject, corr, key, tx) ==
  [subject |-> subject, parses |-> TRUE, auth |-> "Verified",
   role |-> "MeterService", corr |-> corr, key |-> key, tx |-> tx,
   txOk |-> TRUE, policyOk |-> TRUE, keyId |-> "platform_admin",
   blockhash |-> NoHash]

CONSTANTS r1, r2, w1, w2, w3

OneReplica == [w \in Worker |-> r1]
TwoReplicas == [w \in Worker |-> IF w = w1 THEN r1 ELSE r2]
FastOnly == [w \in Worker |-> "fast"]
MintOnly == [w \in Worker |-> "mint"]
OneMintSlot == [w \in Worker |-> IF w = w1 THEN "mint" ELSE "fast"]

\* The slots of one consumer of one replica are interchangeable.
WorkerSymmetry == Permutations(Worker)
FastSymmetry == Permutations(Worker \ {w1})

\* A submit and its re-send under the same idempotency key.
ResendMsg == {"s1", "s2"}
ResendEnv == [m \in ResendMsg |->
  Plain("submit", IF m = "s1" THEN "c1" ELSE "c2", "k1", "t1")]

\* One keyed submit; one without a key.
KeyedMsg == {"s1"}
KeyedEnv == [m \in KeyedMsg |-> Plain("submit", "c1", "k1", "t1")]
UnkeyedEnv == [m \in KeyedMsg |-> Plain("submit", "c1", NoKey, "t1")]

\* A mint and a submit that happen to carry the same key, and an envelope on a
\* subject without handler.
MintMsg == {"m1", "s1", "u1"}
MintEnv == [m \in MintMsg |->
  CASE m = "m1" -> Plain("mint", "c1", "k1", "t1")
    [] m = "s1" -> Plain("submit", "c2", "k1", "t2")
    [] m = "u1" -> Plain("simulate", "c1", NoKey, "t1")]

\* A submit and a status query.
SettleMsg == {"s1", "q1"}
SettleEnv == [m \in SettleMsg |->
  IF m = "s1" THEN Plain("submit", "c1", "k1", "t1")
              ELSE Plain("status", "c1", NoKey, "t1")]

\* Where signatures are not required: an unsigned submit, which may pass, its
\* cancellation, and an unsigned mint, which may not.
ScreenMsg == {"s1", "x1", "m1"}
ScreenEnv == [m \in ScreenMsg |->
  CASE m = "s1" -> [Plain("submit", "c1", NoKey, "t1") EXCEPT !.auth = "Unsigned"]
    [] m = "x1" -> Plain("cancel", "c1", NoKey, "t1")
    [] m = "m1" -> [Plain("mint", "c1", NoKey, "t1") EXCEPT !.auth = "Unsigned"]]

=============================================================================
