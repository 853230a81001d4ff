SPECIFICATION Spec
CONSTANTS
  r1 = r1
  r2 = r2
  Nobody = Nobody
  Requests = {r1}
  NQuestions = 2
  MaxFollowups = 2
  FaultKinds = {"model", "cut", "crash", "read"}
  MaxFaults = 3
  MaxMessages = 20
INVARIANTS
  TurnInv
  InterviewerWaitsForAnswer
  VerdictCoversTranscript
  PausedOnTheOpenThread
PROPERTIES
  VerdictIsFinal
\* A session that is over, or out of injected requests, stops.
CHECK_DEADLOCK FALSE
