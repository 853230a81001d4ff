SPECIFICATION Spec
CONSTANTS
  r1 = r1
  r2 = r2
  Nobody = Nobody
  Requests = {r1}
  NQuestions = 1
  MaxFollowups = 1
  FaultKinds = {"cut"}
  MaxFaults = 1
  MaxMessages = 20
INVARIANTS
  AllScoredMeansComplete
\* A session that is over, or out of injected requests, stops.
CHECK_DEADLOCK FALSE
