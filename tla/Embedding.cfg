SPECIFICATION Spec
CONSTANTS
  cv1 = cv1
  cv2 = cv2
  doc = doc
  repo = repo
  t0 = t0
  t1 = t1
  t2 = t2
  ti1 = ti1
  ti2 = ti2
  none = none
  Cvs = {cv1, cv2}
  ProjectDocs = {doc}
  Repos = {repo}
  MaxAttempts = 2
  Texts = {t0, t1, t2}
  Blank = {t0}
  Pieces = 2
  Titles = {ti1}
  Batch = 1
  Retries = 2
  MaxFaults = 1
  None = none
INVARIANTS
  EmbedInv
  ChunksAreWhole
  FreshWhenQuiet
PROPERTIES
  EveryAttemptEnds
CHECK_DEADLOCK FALSE
