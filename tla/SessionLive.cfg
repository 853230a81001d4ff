SPECIFICATION FairSpec
CONSTANTS
  r1 = r1
  r2 = r2
  Nobody = Nobody
  Requests = {r1}
  NQuestions = 2
  MaxFollowups = 3
  FaultKinds = {"model", "read"}
  MaxFaults = 3
  MaxMessages = 20
INVARIANTS
  FollowupCap
PROPERTIES
  SessionEnds
\* A session that is over, or out of injected requests, stops.
CHECK_DEADLOCK FALSE
