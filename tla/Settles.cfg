\* A submit, whose signing may hang forever, and a status query.
CONSTANTS
  Replica = {r1}
  Worker = {w1, w2}
  Home <- OneReplica
  Lane <- FastOnly
  Msg <- SettleMsg
  Env <- SettleEnv
  Corr = {"c1"}
  Key = {"k1"}
  NoKey = NoKey
  Tx = {"t1"}
  Blockhash = {"b1"}
  NoHash = NoHash
  RequireSigned = TRUE
  AckWait = 1
  MintAckWait = 3
  StaleAfter = 0
  ClaimTTL = 1
  MaxAttempts = 1
  Timely = FALSE
  MaxBuffered = 1
  MaxReconnects = 0
  r1 = r1
  r2 = r2
  w1 = w1
  w2 = w2
  w3 = w3
SPECIFICATION FairSpec
PROPERTY FastLaneSettles
