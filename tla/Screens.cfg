\* A submit racing its cancellation, next to envelopes that the checks turn away;
\* signatures are required of mints only.
CONSTANTS
  Replica = {r1}
  Worker = {w1, w2, w3}
  Home <- OneReplica
  Lane <- OneMintSlot
  Msg <- ScreenMsg
  Env <- ScreenEnv
  Corr = {"c1"}
  Key = {"k1"}
  NoKey = NoKey
  Tx = {"t1"}
  Blockhash = {"b1"}
  NoHash = NoHash
  RequireSigned = FALSE
  AckWait = 1
  MintAckWait = 1
  StaleAfter = 0
  ClaimTTL = 1
  MaxAttempts = 1
  Timely = FALSE
  MaxBuffered = 1
  MaxReconnects = 0
  r1 = r1
  r2 = r2
  w1 = w1
  w2 = w2
  w3 = w3
SYMMETRY FastSymmetry
SPECIFICATION Spec
 
PROPERTY CancelBlocksLaterSubmit
