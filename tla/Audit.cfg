\* Either sink, two overlapping callers.
CONSTANTS
  Writer = {w1, w2}
  Entry = {"e1", "e2"}
  Genesis = Genesis
  MaxRows = 4
SPECIFICATION Spec
INVARIANTS TypeOK LinksBackwards
PROPERTY ImplementsChain
