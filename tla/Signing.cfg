\* Two overlapping calls, every kind of request and environment, two blocks.
CONSTANTS
  c1 = c1
  c2 = c2
  NoHash = NoHash
  Call <- Calls
  Request <- Requests
  Env <- Envs
  MaxHeight = 2
SYMMETRY CallSymmetry
SPECIFICATION Spec
INVARIANTS TypeOK AnswersTruthful AuditTruthful AuditComplete
PROPERTY CacheNeverGoesBack
