SPECIFICATION Spec
CONSTANTS
  j1 = j1
  j2 = j2
  s1 = s1
  tA = tA
  tB = tB
  r1 = r1
  r2 = r2
  none = none
  Jobs = {j1, j2}
  Sessions = {s1}
  Texts = {tA, tB}
  Requests = {r1, r2}
  None = none
SYMMETRY Symmetry
INVARIANTS
  JobInv
  OnePostingPerText
  HashIsOfText
  NoDanglingRows
  AnalysedAsItReads
  NoThreadLeftBehind
CHECK_DEADLOCK FALSE
