SPECIFICATION Spec
CONSTANTS
  r1 = r1
  r2 = r2
  Nobody = Nobody
  Requests = {r1, r2}
  NQuestions = 2
  MaxFollowups = 1
  FaultKinds = {"cut", "crash"}
  MaxFaults = 1
  MaxMessages = 3
INVARIANTS
  SessionInv
  TopicsInOrder
  CompleteMeansAllScored
  ScoredAfterAnAnswer
PROPERTIES
  ImplementsLedger
SYMMETRY Symmetry
\* A session that is over, or out of injected requests, stops.
CHECK_DEADLOCK FALSE
