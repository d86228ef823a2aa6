\* A mint and a submit that carry the same idempotency key, and a subject without handler.
CONSTANTS
  Replica = {r1}
  Worker = {w1, w2}
  Home <- OneReplica
  Lane <- OneMintSlot
  Msg <- MintMsg
  Env <- MintEnv
  Corr = {"c1", "c2"}
  Key = {"k1"}
  NoKey = NoKey
  Tx = {"t1", "t2"}
  Blockhash = {"b1"}
  NoHash = NoHash
  RequireSigned = TRUE
  AckWait = 1
  MintAckWait = 2
  StaleAfter = 0
  ClaimTTL = 2
  MaxAttempts = 1
  Timely = FALSE
  MaxBuffered = 1
  MaxReconnects = 0
  r1 = r1
  r2 = r2
  w1 = w1
  w2 = w2
  w3 = w3
SPECIFICATION Spec
INVARIANTS StartsBounded RepliesTruthful
