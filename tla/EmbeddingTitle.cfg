SPECIFICATION Spec
CONSTANTS
  cv1 = cv1
  cv2 = cv2
  doc = doc
  repo = repo
  t0 = t0
  t1 = t1
  t2 = t2
  ti1 = ti1
  ti2 = ti2
  none = none
  Cvs = {}
  ProjectDocs = {doc}
  Repos = {}
  MaxAttempts = 1
  Texts = {t1}
  Blank = {}
  Pieces = 2
  Titles = {ti1, ti2}
  Batch = 2
  Retries = 2
  MaxFaults = 0
  None = none
INVARIANT
  ConfirmedTitleIsEmbedded
CHECK_DEADLOCK FALSE
