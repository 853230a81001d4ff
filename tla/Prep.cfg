SPECIFICATION FairSpec
CONSTANTS
  j1 = j1
  a = a
  b = b
  c = c
  Jobs = {j1}
  Docs = {1, 2}
  Repos = {a, b, c}
  RepoCap = 2
  FaultKinds = {"model", "cut", "ingest", "restart", "misfit"}
  MaxFaults = 3
INVARIANTS
  PrepInv
  DoneMeansReady
  ProfileIsComplete
  SelectionIngested
PROPERTIES
  PrepFinishes
