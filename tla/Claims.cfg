\* One replica, a submit and its re-send, two slots; no handler outlives its claim.
CONSTANTS
  Replica = {r1}
  Worker = {w1, w2}
  Home <- OneReplica
  Lane <- FastOnly
  Msg <- ResendMsg
  Env <- ResendEnv
  Corr = {"c1", "c2"}
  Key = {"k1"}
  NoKey = NoKey
  Tx = {"t1"}
  Blockhash = {"b1"}
  NoHash = NoHash
  RequireSigned = TRUE
  AckWait = 1
  MintAckWait = 3
  StaleAfter = 0
  ClaimTTL = 2
  MaxAttempts = 1
  Timely = TRUE
  MaxBuffered = 1
  MaxReconnects = 1
  r1 = r1
  r2 = r2
  w1 = w1
  w2 = w2
  w3 = w3
SYMMETRY WorkerSymmetry
SPECIFICATION Spec
INVARIANTS ClaimHeld ClaimExclusive RepliesTruthful
PROPERTIES DoneOnlyExpires ImplementsLedger
