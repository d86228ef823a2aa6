\* Two replicas, one keyed submit, a restart, retries, claims that expire under their handler.
CONSTANTS
  Replica = {r1, r2}
  Worker = {w1, w2, w3}
  Home <- TwoReplicas
  Lane <- FastOnly
  Msg <- KeyedMsg
  Env <- KeyedEnv
  Corr = {"c1"}
  Key = {"k1"}
  NoKey = NoKey
  Tx = {"t1"}
  Blockhash = {"b1"}
  NoHash = NoHash
  RequireSigned = TRUE
  AckWait = 1
  MintAckWait = 3
  StaleAfter = 1
  ClaimTTL = 2
  MaxAttempts = 2
  Timely = FALSE
  MaxBuffered = 1
  MaxReconnects = 1
  r1 = r1
  r2 = r2
  w1 = w1
  w2 = w2
  w3 = w3
SPECIFICATION Spec
INVARIANTS TypeOK StartsBounded RepliesTruthful
