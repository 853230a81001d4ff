SPECIFICATION Spec
CONSTANTS
  j1 = j1
  a = a
  b = b
  c = c
  Jobs = {j1}
  Docs = {}
  Repos = {a}
  RepoCap = 1
  FaultKinds = {"ingest", "restart"}
  MaxFaults = 2
INVARIANTS
  BarrierHolds
