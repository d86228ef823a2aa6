\* Two overlapping callers, two rows.
CONSTANTS
  Writer = {w1, w2}
  Entry = {"e1", "e2"}
  Genesis = Genesis
  MaxRows = 2
SPECIFICATION Spec
INVARIANT LinearChain
